---- MODULE Spec2Model ----
(***************************************************************************)
(* A model of the UFDL job launcher: the launcher loop, the simple poller, *)
(* the job executor's run() lifecycle, the sleep schedule, the cancellation*)
(* check, the artifact packager and the Docker capability matcher.         *)
(*                                                                         *)
(* The module holds several specifications over one set of variables:      *)
(*   Spec        nodes polling a backend and running jobs                  *)
(*   SpecSleep   SleepSchedule objects (core and legacy next())            *)
(*   SpecCancel  AbstractJobExecutor.is_job_cancelled against a clock      *)
(*   SpecPack    AbstractJobExecutor._compress_and_upload                  *)
(*   SpecMatch   AbstractDockerJobExecutor.can_run                         *)
(*   SpecFilter  generate_filter (core and legacy) evaluated by list_jobs  *)
(*   SpecPoll    poll() of the simple poller inside launch_jobs' loop      *)
(*   SpecExec    AbstractJobExecutor._execute, progress and the log        *)
(* A specification leaves the variables of the others at their idle value. *)
(***************************************************************************)
EXTENDS Integers, Sequences, FiniteSets, TLC

VARIABLES
    jobs,       \* backend: job pk -> [node, started, finished, success, ran]
    pc,         \* node -> position of its launcher / executor
    ex,         \* node -> state of the node's current executor
    backoff,    \* node -> index of launch_jobs' backend-error SleepSchedule
    interval,   \* node -> index of poll()'s interval SleepSchedule
    cfg,        \* node -> [continuous, keep_job_dirs]
    faults,     \* failures of the environment so far (backend, disk, job)
    sched,      \* SpecSleep: one SleepSchedule object
    cancel,     \* SpecCancel: one executor's cancellation state and the clock
    pack,       \* SpecPack: the disk, the log and the uploads of one executor
    match,      \* SpecMatch: one can_run call, its inputs and its result
    filt,       \* SpecFilter: one list_jobs call, its inputs and its result
    poller,     \* SpecPoll: one launcher's poll() calls and their passes
    proc        \* SpecExec: one executor's _execute calls and its log

vars == <<jobs, pc, ex, backoff, interval, cfg, faults, sched, cancel, pack,
          match, filt, poller, proc>>

mainVars == <<jobs, pc, ex, backoff, interval, cfg, faults>>

----------------------------------------------------------------------------
(* Bounds of the model.                                                    *)

MaxSchedLen == 3        \* longest schedule SpecSleep constructs
MaxAdvances == 4        \* consecutive next() calls SpecSleep counts

(* Python's None / a missing dictionary key.                               *)
NONE == "None"
ABSENT == "Absent"

Min(a, b) == IF a < b THEN a ELSE b

----------------------------------------------------------------------------
(* SleepSchedule (core/_sleep.py and the legacy _sleep.py).                *)

Durations == {5, 10, 20}

\* A constructor that accepts every schedule.
ScheduleAlwaysConstructs(schedule) == TRUE

\* SleepSchedule.__init__: the schedules that construct an instance; an empty
\* schedule raises instead.
ScheduleConstructs(schedule) == Len(schedule) # 0

\* SleepSchedule.sleep: the duration read, schedule[current] (1-based here).
SleepSeconds(schedule, current) == schedule[current + 1]

\* SleepSchedule.reset
SleepReset == 0

\* A next() that leaves the index where it is.
SleepNextStays(schedule, current) == current

\* SleepSchedule.next of core/_sleep.py: clamps at the last entry.
SleepNext(schedule, current) ==
    IF current + 1 < Len(schedule) THEN current + 1 ELSE current

\* SleepSchedule.next of the legacy _sleep.py: increments, and resets when
\* the index has run past the end.
LegacySleepNext(schedule, current) ==
    IF current + 1 >= Len(schedule) THEN SleepReset ELSE current + 1

NextOf(variant, schedule, current) ==
    IF variant = "core" THEN SleepNext(schedule, current)
    ELSE LegacySleepNext(schedule, current)

SchedIdle == [variant |-> "core", schedule |-> <<>>, current |-> 0,
              advances |-> 0, slept |-> 0, raised |-> FALSE]

Schedules == UNION {[1..n -> Durations] : n \in 0..MaxSchedLen}

\* SleepSchedule(schedule): current = 0; raises on an empty schedule.
SchedConstruct(variant, schedule) ==
    [SchedIdle EXCEPT !.variant = variant, !.schedule = schedule,
                      !.raised = ~ScheduleConstructs(schedule)]

SchedSleep ==
    /\ ~sched.raised
    /\ sched' = [sched EXCEPT !.slept = SleepSeconds(sched.schedule, sched.current)]

\* advances counts the next() calls since the index was last set to 0 (by
\* the constructor or by reset()).
SchedNext ==
    /\ ~sched.raised
    /\ sched.advances < MaxAdvances
    /\ sched' = [sched EXCEPT
                   !.current = NextOf(sched.variant, sched.schedule, sched.current),
                   !.advances = @ + 1]

SchedReset ==
    /\ ~sched.raised
    /\ sched' = [sched EXCEPT !.current = SleepReset, !.advances = 0]

----------------------------------------------------------------------------
(* AbstractJobExecutor.is_job_cancelled against a wall clock (seconds).    *)

CancelCheckWait == 30   \* config.general.cancel_check_wait of the claim
MaxTime == 45           \* the clock stops here
TickSteps == {10, 15}   \* the clock's steps

NoCall == [t |-> -1, immediate |-> FALSE, queried |-> FALSE,
           completed |-> FALSE, flagBefore |-> FALSE, result |-> "none"]

\* flag: _job_is_cancelled; last: _last_cancel_check (-1: None); now: the
\* clock; backend: the backend's is_cancelled of the job; prev, cur: the two
\* latest calls of is_job_cancelled; ncalls: calls so far (counted to 3).
CancelIdle == [flag |-> FALSE, last |-> -1, now |-> 0, backend |-> FALSE,
               prev |-> NoCall, cur |-> NoCall, ncalls |-> 0]

\* The throttle test of is_job_cancelled: whether a call queries the backend.
\* A check that forgets the wait between queries.
CancelQueryUnthrottled(immediate, last, now) ==
    \/ immediate
    \/ last = -1
    \/ now - last >= 0

\* The test of is_job_cancelled that lets the call query the backend.
CancelQueryDue(immediate, last, now) ==
    \/ immediate
    \/ last = -1
    \/ now - last >= CancelCheckWait

\* A check without the test of the flag at its head: every due call
\* queries the backend and stores what it answers.
IsJobCancelledRequeries(c, immediate, retrieveOk) ==
    LET call == [t |-> c.now, immediate |-> immediate, queried |-> FALSE,
                 completed |-> FALSE, flagBefore |-> c.flag, result |-> "none"]
        base == [c EXCEPT !.prev = c.cur, !.ncalls = Min(c.ncalls + 1, 3)]
    IN  IF ~CancelQueryDue(immediate, c.last, c.now)
        THEN [base EXCEPT !.cur = [call EXCEPT !.result = "false"]]
        ELSE IF ~retrieveOk
        THEN [base EXCEPT !.cur = [call EXCEPT !.queried = TRUE,
                                               !.result = "raise"]]
        ELSE [base EXCEPT !.flag = c.backend, !.last = c.now,
                          !.cur = [call EXCEPT
                                     !.queried = TRUE, !.completed = TRUE,
                                     !.result = IF c.backend THEN "true"
                                                ELSE "false"]]

\* is_job_cancelled(immediate); retrieveOk: whether job_retrieve returns
\* (otherwise it raises, and the exception leaves the method).
IsJobCancelled(c, immediate, retrieveOk) ==
    LET call == [t |-> c.now, immediate |-> immediate, queried |-> FALSE,
                 completed |-> FALSE, flagBefore |-> c.flag, result |-> "none"]
        base == [c EXCEPT !.prev = c.cur, !.ncalls = Min(c.ncalls + 1, 3)]
    IN  IF c.flag
        THEN [base EXCEPT !.cur = [call EXCEPT !.result = "true"]]
        ELSE IF ~CancelQueryDue(immediate, c.last, c.now)
        THEN [base EXCEPT !.cur = [call EXCEPT !.result = "false"]]
        ELSE IF ~retrieveOk
        THEN [base EXCEPT !.cur = [call EXCEPT !.queried = TRUE,
                                               !.result = "raise"]]
        ELSE [base EXCEPT !.flag = c.backend, !.last = c.now,
                          !.cur = [call EXCEPT
                                     !.queried = TRUE, !.completed = TRUE,
                                     !.result = IF c.backend THEN "true"
                                                ELSE "false"]]

CancelCheck ==
    \E immediate \in BOOLEAN, retrieveOk \in BOOLEAN :
        cancel' = IsJobCancelled(cancel, immediate, retrieveOk)

CancelTick ==
    \E d \in TickSteps :
        /\ cancel.now + d <= MaxTime
        /\ cancel' = [cancel EXCEPT !.now = @ + d]

\* The backend's is_cancelled of the job changes: a user cancels the job,
\* or a reset of the job clears the mark.
CancelByBackend ==
    cancel' = [cancel EXCEPT !.backend = ~@]

----------------------------------------------------------------------------
(* AbstractJobExecutor._compress_and_upload and what it calls.             *)

MaxFiles == 2           \* longest file list handed to _compress_and_upload

\* Paths a job hands over; the first two lie under the prefix "/job".
Paths == {"/job/a", "/job/b", "/other/c"}
UnderPrefix(f) == f \in {"/job/a", "/job/b"}

\* What a path is on disk.
DiskKinds == {"absent", "file", "dir"}

FileLists == UNION {[1..n -> Paths] : n \in 0..MaxFiles}

\* strip_path: True (strip to the basename) or a prefix string.
StripPaths == {"True", "/job"}

\* disk: path -> kind; log: the messages log_msg appended, in order;
\* uploads: the file lists whose archive was handed to the backend
\* (job_add_output called); zips: archives written; raised: an exception
\* left _compress_and_upload; last, strip: the files and the strip_path of
\* the latest call; zipOk: whether the archive itself could be written
\* during it.
PackIdle == [disk |-> [f \in Paths |-> "absent"], log |-> <<>>,
             uploads |-> <<>>, zips |-> 0, raised |-> FALSE,
             calls |-> 0, last |-> <<>>, strip |-> "True",
             zipOk |-> TRUE]

\* A test that forgets os.path.isfile.
AnyExists(disk, files) ==
    \E i \in 1..Len(files) : disk[files[i]] # "absent"

\* _any_present: some listed path exists and is a regular file.
AnyPresent(disk, files) ==
    \E i \in 1..Len(files) : disk[files[i]] = "file"

\* _compress: "ok" when the archive was written.  ZipFile.write raises on a
\* path that does not exist, and with a prefix strip_path a file outside
\* the prefix leaves arcname None, on which startswith raises; either is
\* caught, logged and returned as the error message.
CompressFails(disk, files, strip, zipOk) ==
    \/ ~zipOk
    \/ \E i \in 1..Len(files) :
          \/ disk[files[i]] = "absent"
          \/ strip # "True" /\ ~UnderPrefix(files[i])

Compress(p, files, strip, zipOk) ==
    IF CompressFails(p.disk, files, strip, zipOk)
    THEN [p EXCEPT !.log = @ \o <<"Compressing", "Failed to compress">>]
    ELSE [p EXCEPT !.log = Append(@, "Compressing"), !.zips = @ + 1]

\* _upload: hands the archive to the backend (job_add_output); a failure is
\* caught and logged.
Upload(p, files, uploadOk) ==
    IF uploadOk
    THEN [p EXCEPT !.uploads = Append(@, files)]
    ELSE [p EXCEPT !.uploads = Append(@, files),
                   !.log = Append(@, "Failed to upload")]

\* _compress_and_upload(output, files, zipfile, strip_path)
CompressAndUpload(p, files, strip, zipOk, uploadOk) ==
    LET q == [p EXCEPT !.calls = @ + 1, !.last = files, !.strip = strip,
                       !.zipOk = zipOk] IN
    IF Len(files) = 0
    THEN [q EXCEPT !.log = Append(@, "No files supplied")]
    ELSE IF ~AnyPresent(q.disk, files)
    THEN [q EXCEPT !.log = Append(@, "None of the files are present")]
    ELSE LET c == Compress(q, files, strip, zipOk) IN
         IF c.zips > q.zips THEN Upload(c, files, uploadOk) ELSE c

\* One call per executor object in this specification: the log and the
\* uploads of the state are those of that call.
PackCall ==
    /\ pack.calls = 0
    /\ \E files \in FileLists, strip \in StripPaths,
          zipOk \in BOOLEAN, uploadOk \in BOOLEAN :
            pack' = CompressAndUpload(pack, files, strip, zipOk, uploadOk)

\* The job (or anything else) creates or removes a path before the call.
PackDiskChange ==
    /\ pack.calls = 0
    /\ \E f \in Paths, k \in DiskKinds :
          /\ pack.disk[f] # k
          /\ pack' = [pack EXCEPT !.disk[f] = k]

----------------------------------------------------------------------------
(* AbstractDockerJobExecutor.can_run: the capability matcher.              *)

MaxGpus == 2            \* most GPUs of a hardware snapshot

\* Version strings, as the character codes Python compares them by.
V9_0 == <<57, 46, 48>>              \* "9.0"
V10_0 == <<49, 48, 46, 48>>         \* "10.0"
V10_1 == <<49, 48, 46, 49>>         \* "10.1"
D440 == <<52, 52, 48, 46, 49, 48>>  \* "440.10"
D450 == <<52, 53, 48, 46, 53, 49>>  \* "450.51"

CudaVersions == {V9_0, V10_0, V10_1}
DriverVersions == {D440, D450}
\* Compute capabilities, in tenths (7.5 is 75).
Computes == {60, 75}

\* Python's a > b on two strings: the first differing character decides, and
\* a proper prefix is the smaller.
RECURSIVE StrGreater(_, _)
StrGreater(a, b) ==
    IF Len(a) = 0 THEN FALSE
    ELSE IF Len(b) = 0 THEN TRUE
    ELSE IF Head(a) # Head(b) THEN Head(a) > Head(b)
    ELSE StrGreater(Tail(a), Tail(b))

\* A dictionary with one key, or none.
Opt(key, values) == {<<>>} \cup {key :> v : v \in values}

\* A GPU entry of the snapshot: 'compute' is a key of it or not.
GpuDicts == Opt("compute", Computes)

\* The content of a hardware snapshot: 'gpus' (device index -> GPU entry, the
\* indices counted from 0), 'driver' and 'cuda', each present or not (a
\* missing key of the dictionary, a None attribute of the dataclass).
GpuLists == UNION {[1..n -> GpuDicts] : n \in 0..MaxGpus}
HardwareContents ==
    {g @@ d @@ c : g \in Opt("gpus", GpuLists),
                   d \in Opt("driver", DriverVersions),
                   c \in Opt("cuda", CudaVersions)}

\* The snapshot handed to can_run: the HardwareInfo object that
\* HardwareInfo.collect returns and prepare_job passes on, or the dictionary
\* that can_run's docstring names (and the legacy hardware_info() returns).
HardwareInfos == [shape : {"HardwareInfo", "dict"}, info : HardwareContents]

\* `key in hardware_info` and hardware_info[key] are defined for the
\* dictionary; on a HardwareInfo object they raise TypeError.
IsMapping(hw) == hw.shape = "dict"

\* The Docker image of the job: cpu, cuda_version (None or version and
\* min_driver_version) and min_hardware_generation (None or its
\* min_compute_capability).
NoCuda == [present |-> FALSE, version |-> <<>>, min_driver_version |-> <<>>]
NoGeneration == [present |-> FALSE, min_compute_capability |-> 0]
DockerImages ==
    [cpu : BOOLEAN,
     cuda_version : {NoCuda} \cup
        [present : {TRUE}, version : CudaVersions,
         min_driver_version : DriverVersions],
     min_hardware_generation : {NoGeneration} \cup
        [present : {TRUE}, min_compute_capability : Computes]]

\* The first test with the last GPU of the snapshot in the place of GPU 0.
NoGpuReasonLastGpu(hw) ==
    IF "gpus" \notin DOMAIN hw \/ Len(hw["gpus"]) = 0
        THEN "Node has no GPUs"
    ELSE IF "driver" \notin DOMAIN hw THEN "Node has no GPU driver"
    ELSE IF "cuda" \notin DOMAIN hw THEN "Node has no CUDA version"
    ELSE IF "compute" \notin DOMAIN hw["gpus"][Len(hw["gpus"])]
        THEN "Node GPU has no compute capability"
    ELSE NONE

\* The first test of can_run, on a mapping: why the node counts as having no
\* GPU.
NoGpuReason(hw) ==
    IF "gpus" \notin DOMAIN hw \/ Len(hw["gpus"]) = 0
        THEN "Node has no GPUs"
    ELSE IF "driver" \notin DOMAIN hw THEN "Node has no GPU driver"
    ELSE IF "cuda" \notin DOMAIN hw THEN "Node has no CUDA version"
    ELSE IF "compute" \notin DOMAIN hw["gpus"][1]
        THEN "Node GPU has no compute capability"
    ELSE NONE

\* can_run(hardware_info): NONE when the job can run, "raise" when the call
\* raises (the snapshot is no mapping, cuda_retrieve fails, or an image
\* without CUDA version reaches the comparison), otherwise the reason.
CanRun(hw, image, retrieveOk) ==
    LET d == hw.info IN
    IF ~IsMapping(hw) THEN "raise"
    ELSE IF NoGpuReason(d) # NONE
    THEN IF ~image.cpu THEN "not CPU-only: " \o NoGpuReason(d) ELSE NONE
    ELSE IF ~retrieveOk \/ ~image.cuda_version.present THEN "raise"
    ELSE IF StrGreater(image.cuda_version.version, d["cuda"])
        THEN "CUDA version is too low"
    ELSE IF StrGreater(image.cuda_version.min_driver_version, d["driver"])
        THEN "driver version is too low"
    ELSE IF /\ image.min_hardware_generation.present
            /\ image.min_hardware_generation.min_compute_capability
                 > d["gpus"][1]["compute"]
        THEN "compute capability is too low"
    ELSE NONE

MatchIdle == [hw |-> [shape |-> "dict", info |-> <<>>],
              image |-> [cpu |-> TRUE, cuda_version |-> NoCuda,
                         min_hardware_generation |-> NoGeneration],
              called |-> FALSE, result |-> NONE, retrieveOk |-> TRUE,
              engine |-> [version |-> [major |-> 0, minor |-> <<0, 0>>],
                          returncode |-> 0, stdout |-> "list"],
              run |-> [called |-> FALSE, raised |-> FALSE, flags |-> <<>>,
                       queries |-> 0]]

\* DefaultJobPrepper.prepare_job's call executor.can_run(info).
MatchCall ==
    /\ ~match.called
    /\ \E retrieveOk \in BOOLEAN :
          match' = [match EXCEPT
                      !.called = TRUE, !.retrieveOk = retrieveOk,
                      !.result = CanRun(match.hw, match.image, retrieveOk)]

\* _gpu_flags with _version(include_patch=False).  res is what
\* _execute(["docker", "--version"], no_sudo=True) returned: the engine's
\* version (major and the digits of minor), the return code, and the type
\* of stdout, which _execute builds as a list of lines when it is given no
\* stdin, and as None in its except branch.  _version calls
\* res.stdout.decode(), which only bytes have; float(version) >= 19.03 is
\* compared here in hundredths.
GpuFlags(use_gpu, res, additional) ==
    LET hundredths == res.version.major * 100 + res.version.minor[1] * 10
                      + res.version.minor[2]
    IN  IF ~use_gpu THEN [raised |-> FALSE, flags |-> <<>>, queries |-> 0]
        ELSE IF res.returncode > 0
        THEN [raised |-> FALSE, flags |-> additional, queries |-> 1]
        ELSE IF res.stdout # "bytes"
        THEN [raised |-> TRUE, flags |-> <<>>, queries |-> 1]
        ELSE IF hundredths >= 1903
        THEN [raised |-> FALSE, queries |-> 1,
              flags |-> <<"--gpus=device">> \o additional]
        ELSE [raised |-> FALSE, queries |-> 1,
              flags |-> <<"--runtime=nvidia">> \o additional]

\* _run_image: the docker arguments begin with the GPU flags; an exception
\* of _gpu_flags leaves _run_image before anything is executed.  _use_gpu
\* is what _pre_run set it to: the image is not CPU-only.
RunImage ==
    /\ ~match.run.called
    /\ \E additional \in {<<>>, <<"--shm-size=8G">>} :
          LET g == GpuFlags(~match.image.cpu, match.engine, additional)
          IN  match' = [match EXCEPT
                          !.run = [called |-> TRUE, raised |-> g.raised,
                                   flags |-> g.flags, queries |-> g.queries]]

----------------------------------------------------------------------------
(* The backend's job table, the launcher loop, the simple poller and the   *)
(* executor's run().                                                       *)

NumNodes == 2           \* nodes polling the same backend
NumJobs == 2            \* jobs the backend holds
MaxFaults == 2          \* failures the environment injects in one behaviour

Nodes == 1..NumNodes
Jobs == 1..NumJobs
NULL == 0               \* a null node / no job

\* config.general.poll_backenderror_wait and config.poll_simple.interval.
BackendErrorWait == <<5, 10, 20>>
PollInterval == <<5, 10>>

\* --- the job filter ------------------------------------------------------
\* A filter expression: IsNull(field) with its invert flag, a test of the
\* job's Docker image against the hardware ("image"), or And / Or of
\* expressions.
IsNull(f, inv) == [op |-> "isnull", field |-> f, invert |-> inv, subs |-> <<>>]
ImageTest(f) == [op |-> "image", field |-> f, invert |-> FALSE, subs |-> <<>>]
And(subs) == [op |-> "and", field |-> "", invert |-> FALSE, subs |-> subs]
Or(subs) == [op |-> "or", field |-> "", invert |-> FALSE, subs |-> subs]

\* generate_filter of core/poll/_core.py.
GenerateFilter ==
    And(<<IsNull("start_time", FALSE), IsNull("node", FALSE),
          IsNull("template.workabletemplate", TRUE)>>)

\* generate_filter(hardware_info) of the legacy poll/_core.py; hw is the
\* dictionary of the legacy hardware_info().
LegacyGenerateFilter(hw) ==
    IF "gpus" \in DOMAIN hw
    THEN Or(<<And(<<IsNull("start_time", FALSE), ImageTest("cuda"),
                    ImageTest("driver"), ImageTest("compute"),
                    IsNull("node", TRUE)>>),
              And(<<IsNull("start_time", FALSE), ImageTest("cpu"),
                    IsNull("node", TRUE)>>)>>)
    ELSE And(<<IsNull("start_time", FALSE), ImageTest("cpu"),
               IsNull("node", TRUE)>>)

\* The backend's evaluation of a filter expression on a job.
FieldIsNull(job, f) ==
    IF f = "start_time" THEN ~job.started
    ELSE IF f = "node" THEN job.node = NULL
    ELSE FALSE      \* every job's template is a workable template

\* The comparisons of the legacy filter, on the job's Docker image.
ImageHolds(image, f, hw) ==
    IF f = "cpu" THEN image.cpu
    ELSE IF ~image.cuda_version.present THEN FALSE
    ELSE IF f = "cuda"
        THEN ~StrGreater(image.cuda_version.version, hw["cuda"])
    ELSE IF f = "driver"
        THEN ~StrGreater(image.cuda_version.min_driver_version, hw["driver"])
    ELSE image.min_hardware_generation.present
         /\ image.min_hardware_generation.min_compute_capability
              <= hw["gpus"][1]["compute"]

Leaf(e, job, hw) ==
    IF e.op = "isnull" THEN FieldIsNull(job, e.field) # e.invert
    ELSE ImageHolds(job.image, e.field, hw)

Conj(e, job, hw) ==
    IF e.op = "and"
    THEN \A i \in 1..Len(e.subs) : Leaf(e.subs[i], job, hw)
    ELSE Leaf(e, job, hw)

Matches(e, job, hw) ==
    IF e.op = "or"
    THEN \E i \in 1..Len(e.subs) : Conj(e.subs[i], job, hw)
    ELSE Conj(e, job, hw)

\* list_jobs(filter): the matching jobs, by primary key.
RECURSIVE ListFrom(_, _, _, _)
ListFrom(e, table, hw, j) ==
    IF j > NumJobs THEN <<>>
    ELSE (IF Matches(e, table[j], hw) THEN <<j>> ELSE <<>>)
         \o ListFrom(e, table, hw, j + 1)

ListJobs(e, table, hw) == ListFrom(e, table, hw, 1)

Range(seq) == {seq[i] : i \in 1..Len(seq)}

\* The jobs a poller may find at the backend: unowned, acquired by a node, or
\* acquired and started; each with the Docker image of its template.
CpuImage == [cpu |-> TRUE, cuda_version |-> NoCuda,
             min_hardware_generation |-> NoGeneration]
GpuImage == [cpu |-> FALSE,
             cuda_version |-> [present |-> TRUE, version |-> V10_0,
                               min_driver_version |-> D440],
             min_hardware_generation |-> [present |-> TRUE,
                                          min_compute_capability |-> 60]]
ListedJobs ==
    {job \in [node : Nodes \cup {NULL}, started : BOOLEAN,
              image : {CpuImage, GpuImage}] :
        job.started => job.node # NULL}

\* The legacy hardware_info() of a node without GPU tooling, and of a node
\* with one GPU.
PollerHardware ==
    {<<>>,
     ("gpus" :> <<("compute" :> 75)>>) @@ ("driver" :> D450)
        @@ ("cuda" :> V10_1)}

FilterIdle == [table |-> <<>>, hw |-> <<>>, variant |-> "core",
               listed |-> FALSE, result |-> <<>>]

\* One poll: list_jobs with the filter of the core or of the legacy poller.
FilterList ==
    /\ ~filt.listed
    /\ \E v \in {"core", "legacy"} :
          filt' = [filt EXCEPT
                     !.variant = v, !.listed = TRUE,
                     !.result = ListJobs(IF v = "core" THEN GenerateFilter
                                         ELSE LegacyGenerateFilter(filt.hw),
                                         filt.table, filt.hw)]

\* --- the executor --------------------------------------------------------
\* job: the job's pk; job_dir: self._job_dir is set; dir: the directory is
\* on disk; pre, do, error: run()'s pre_run_success, do_run_success and
\* error; log: the error entries of self._log, in order; raised: an
\* exception left run().  Of this run, for the claims: acq and st, how the
\* acquire and start calls ended; doRuns, postRuns, uploads: how often
\* _do_run, _post_run and the log upload were entered; finishes: the
\* arguments of the finish_job calls.
NewExecutor(j) ==
    [job |-> j, state |-> "created", job_dir |-> FALSE, dir |-> FALSE,
     pre |-> FALSE, do |-> FALSE, error |-> "none", log |-> <<>>,
     raised |-> FALSE, acq |-> "none", st |-> "none",
     doRuns |-> 0, postRuns |-> 0, uploads |-> 0, finishes |-> <<>>,
     calls |-> <<>>, uploaded |-> FALSE, artifact |-> <<>>]

NoExecutor == NewExecutor(NULL)

Logged(e, msg) == [e EXCEPT !.log = Append(@, msg)]

\* run()'s handler of an exception of _pre_run.
PreRunRaised(e) ==
    Logged([e EXCEPT !.pre = FALSE, !.error = "pre-run exception"],
           "Failed to execute pre-run code")

\* A _pre_run that lets the exception of a failed acquire leave it.
PreRunAcquireRaises(e, mkdirOk, outcome) ==
    IF ~mkdirOk THEN PreRunRaised(e)
    ELSE LET d == [e EXCEPT !.job_dir = TRUE, !.dir = TRUE, !.acq = outcome,
                            !.calls = Append(@, "acquire")]
         IN  IF outcome = "ok" THEN d ELSE PreRunRaised(d)

\* _pre_run up to the acquire call: the job directory is made, then
\* acquire_job is called; outcome is "ok", "refused" (the backend's
\* HTTPError) or "error" (any other exception).
PreRunAcquireStep(e, mkdirOk, outcome) ==
    IF ~mkdirOk THEN PreRunRaised(e)
    ELSE LET d == [e EXCEPT !.job_dir = TRUE, !.dir = TRUE, !.acq = outcome,
                            !.calls = Append(@, "acquire")]
         IN  IF outcome = "ok" THEN d
             ELSE Logged([d EXCEPT !.pre = FALSE], "Failed to acquire job")

\* _pre_run from the start call on: start_job, then the subclass's own
\* pre-run steps (registry login, image pull), which may raise.
PreRunStartStep(e, outcome, subclassOk) ==
    LET d == [e EXCEPT !.st = outcome, !.calls = Append(@, "start")] IN
    IF outcome # "ok"
    THEN Logged([d EXCEPT !.pre = FALSE], "Failed to start job")
    ELSE IF ~subclassOk THEN PreRunRaised(d)
    ELSE [d EXCEPT !.pre = TRUE]

\* _pre_run of the intermediate executor (core/_executors.py): acquire, then
\* start.  Its handler of a non-HTTP exception of start_job only logs, and
\* the method goes on to `return True`; a refused acquire returns None,
\* which run() takes as false.
IntermediatePreRunStep(e, mkdirOk, acquired, started) ==
    IF ~mkdirOk THEN PreRunRaised(e)
    ELSE LET d == [e EXCEPT !.job_dir = TRUE, !.dir = TRUE,
                            !.acq = acquired,
                            !.calls = Append(@, "acquire")]
             f == [d EXCEPT !.st = started, !.calls = Append(@, "start")]
         IN  IF acquired # "ok"
             THEN Logged([d EXCEPT !.pre = FALSE], "Failed to acquire job")
             ELSE IF started = "ok" THEN [f EXCEPT !.pre = TRUE]
             ELSE IF started = "refused"
             THEN Logged([f EXCEPT !.pre = FALSE], "Failed to start job")
             ELSE Logged([f EXCEPT !.pre = TRUE], "Failed to start job")

\* A run() that invokes _do_run whatever _pre_run returned.
DoRunAlways(e) == TRUE

\* run(): whether _do_run is invoked.
DoRunInvoked(e) == e.pre

\* run()'s second block: _do_run, whose exception is caught.  (The ping
\* before it, _ping_backend, catches its own exceptions.)
DoRunStep(e, doOk) ==
    LET d == [e EXCEPT !.doRuns = @ + 1, !.calls = Append(@, "do_run")] IN
    IF doOk THEN [d EXCEPT !.do = TRUE]
    ELSE Logged([d EXCEPT !.error = "do-run exception"],
                "Failed to execute do-run code")

\* _post_run: the error handed to finish_job.
FinishError(e) ==
    IF e.error # "none" THEN e.error
    ELSE IF ~e.pre THEN "An error occurred during pre-run, check log!"
    ELSE IF ~e.do THEN "An error occurred during run, check log!"
    ELSE ABSENT

FinishArgs(e) == [success |-> e.pre /\ e.do, error |-> FinishError(e)]

\* A run() without the handler: the exception leaves run().
PostRunPropagates(e) == [e EXCEPT !.raised = TRUE]

\* run()'s handler of an exception of _post_run.
PostRunRaised(e) == Logged(e, "Failed to execute post-run code")

\* run()'s last block, _post_run: the log upload (an exception of it leaves
\* _post_run), the finish call (its exceptions are caught and logged), the
\* removal of the job directory unless it is kept.  calls is the order of
\* the executor's calls so far: the backend's acquire, start and finish, the
\* log upload and _do_run; artifact is the log as it was uploaded.
PostRunStep(e, uploadOk, finishOk, keep) ==
    LET d == [e EXCEPT !.postRuns = @ + 1, !.uploads = @ + 1,
                       !.calls = Append(@, "upload")] IN
    IF ~uploadOk THEN [PostRunRaised(d) EXCEPT !.state = "done"]
    ELSE LET f == [d EXCEPT !.uploaded = TRUE, !.artifact = d.log,
                            !.finishes = Append(@, FinishArgs(d)),
                            !.calls = Append(@, "finish")]
             g == IF finishOk THEN f ELSE Logged(f, "Failed to finish job")
         IN  [g EXCEPT !.dir = IF keep THEN @ ELSE FALSE,
                       !.job_dir = FALSE, !.state = "done"]

\* --- the backend's job lifecycle calls -----------------------------------
\* acquire: the atomic ownership transfer; refused unless the job is unowned.
BackendAcquires(table, j) == table[j].node = NULL
\* start: only by the owner, once.
BackendStarts(table, j, n) == table[j].node = n /\ ~table[j].started
\* finish: only by the owner, of a started job, once.
BackendFinishes(table, j, n) ==
    table[j].node = n /\ table[j].started /\ ~table[j].finished

NewJob == [node |-> NULL, started |-> FALSE, finished |-> FALSE,
           success |-> FALSE, ran |-> {}]

\* --- the launcher loop ---------------------------------------------------
\* launch_jobs' handler of an exception of poll/execute: sleep, next, and
\* the end of the iteration.
AfterIteration(n) == IF cfg[n].continuous THEN "poll" ELSE "exit"

\* The environment fails k more times (a backend call, the disk or the job's
\* own work raising).
Cnt(b) == IF b THEN 1 ELSE 0
Inject(k) == faults + k <= MaxFaults /\ faults' = faults + k

\* The node registers with the backend (the first loop of launch_jobs).
Register(n) ==
    /\ pc[n] = "register"
    /\ \E ok \in BOOLEAN :
          /\ Inject(Cnt(~ok))
          /\ IF ok
             THEN /\ backoff' = [backoff EXCEPT ![n] = SleepReset]
                  /\ pc' = [pc EXCEPT ![n] = "poll"]
             ELSE /\ backoff' = [backoff EXCEPT
                                   ![n] = SleepNext(BackendErrorWait, @)]
                  /\ pc' = pc
    /\ UNCHANGED <<jobs, ex, interval, cfg>>

\* One pass of poll()'s loop inside one iteration of launch_jobs' loop.
\* listOk: list_jobs returns.  prepare_job is called on the candidates in
\* list order: the candidates before index `at` are rejected by can_run; at
\* `at`, prepare_job returns the executor ("accept") or raises ("raise":
\* create_executor or can_run raising); at = 0: every candidate is rejected.
Poll(n) ==
    /\ pc[n] = "poll"
    /\ \E listOk \in BOOLEAN, how \in {"accept", "raise"} :
          LET list == ListJobs(GenerateFilter, jobs, <<>>) IN
          \E at \in 0..Len(list) :
              IF ~listOk \/ (at > 0 /\ how = "raise")
              THEN /\ Inject(1)
                   /\ backoff' = [backoff EXCEPT
                                    ![n] = SleepNext(BackendErrorWait, @)]
                   /\ interval' = [interval EXCEPT ![n] = 0]
                   /\ pc' = [pc EXCEPT ![n] = AfterIteration(n)]
                   /\ ex' = ex
              ELSE IF at > 0
              THEN /\ Inject(0)
                   /\ ex' = [ex EXCEPT ![n] = NewExecutor(list[at])]
                   /\ interval' = [interval EXCEPT ![n] = 0]
                   /\ pc' = [pc EXCEPT ![n] = "acquire"]
                   /\ backoff' = backoff
              ELSE /\ Inject(0)
                   /\ interval' = [interval EXCEPT
                                     ![n] = SleepNext(PollInterval, @)]
                   /\ UNCHANGED <<pc, ex, backoff>>
    /\ UNCHANGED <<jobs, cfg>>

PreRunAcquire(n) ==
    /\ pc[n] = "acquire"
    /\ \E mkdirOk \in BOOLEAN, reached \in BOOLEAN :
          LET j == ex[n].job
              outcome == IF ~reached THEN "error"
                         ELSE IF BackendAcquires(jobs, j) THEN "ok"
                         ELSE "refused"
              e == PreRunAcquireStep(ex[n], mkdirOk, outcome)
          IN  /\ Inject(IF ~mkdirOk THEN 1 ELSE Cnt(~reached))
              /\ ex' = [ex EXCEPT ![n] = e]
              /\ jobs' = IF e.acq = "ok"
                         THEN [jobs EXCEPT ![j].node = n] ELSE jobs
              /\ pc' = [pc EXCEPT ![n] = IF e.acq = "ok" THEN "start"
                                         ELSE IF DoRunInvoked(e) THEN "do_run"
                                         ELSE "post_run"]
    /\ UNCHANGED <<backoff, interval, cfg>>

PreRunStart(n) ==
    /\ pc[n] = "start"
    /\ \E reached \in BOOLEAN, subclassOk \in BOOLEAN :
          LET j == ex[n].job
              outcome == IF ~reached THEN "error"
                         ELSE IF BackendStarts(jobs, j, n) THEN "ok"
                         ELSE "refused"
              e == PreRunStartStep(ex[n], outcome, subclassOk)
          IN  /\ Inject(IF outcome = "ok" THEN Cnt(~subclassOk)
                        ELSE Cnt(~reached))
              /\ ex' = [ex EXCEPT ![n] = e]
              /\ jobs' = IF outcome = "ok"
                         THEN [jobs EXCEPT ![j].started = TRUE] ELSE jobs
              /\ pc' = [pc EXCEPT ![n] = IF DoRunInvoked(e) THEN "do_run"
                                         ELSE "post_run"]
    /\ UNCHANGED <<backoff, interval, cfg>>

\* run() of the intermediate executor up to the call of _do_run.
IntermediatePreRun(n) ==
    /\ pc[n] = "acquire"
    /\ \E mkdirOk, reached, reached2 \in BOOLEAN :
          LET j == ex[n].job
              acquired == IF ~reached THEN "error"
                          ELSE IF BackendAcquires(jobs, j) THEN "ok"
                          ELSE "refused"
              started == IF ~reached2 THEN "error" ELSE "ok"
              e == IntermediatePreRunStep(ex[n], mkdirOk, acquired, started)
          IN  /\ Inject(IF ~mkdirOk THEN 1
                        ELSE IF ~reached THEN 1
                        ELSE IF e.acq = "ok" THEN Cnt(~reached2) ELSE 0)
              /\ ex' = [ex EXCEPT ![n] = e]
              /\ jobs' = IF e.acq = "ok"
                         THEN [jobs EXCEPT ![j].node = n,
                                           ![j].started = (e.st = "ok")]
                         ELSE jobs
              /\ pc' = [pc EXCEPT ![n] = IF DoRunInvoked(e) THEN "do_run"
                                         ELSE "post_run"]
    /\ UNCHANGED <<backoff, interval, cfg>>

DoRun(n) ==
    /\ pc[n] = "do_run"
    /\ \E doOk \in BOOLEAN :
          /\ Inject(Cnt(~doOk))
          /\ ex' = [ex EXCEPT ![n] = DoRunStep(@, doOk)]
    /\ jobs' = [jobs EXCEPT ![ex[n].job].ran = @ \cup {n}]
    /\ pc' = [pc EXCEPT ![n] = "post_run"]
    /\ UNCHANGED <<backoff, interval, cfg>>

\* _post_run, the return of run() and the rest of the launcher's iteration:
\* sleep.reset() (after an exception of run(): sleep and next) and the test
\* of `continuous`.
PostRun(n) ==
    /\ pc[n] = "post_run"
    /\ \E uploadOk \in BOOLEAN, reached \in BOOLEAN :
          LET j == ex[n].job
              finishOk == reached /\ BackendFinishes(jobs, j, n)
              e == PostRunStep(ex[n], uploadOk, finishOk,
                               cfg[n].keep_job_dirs)
          IN  /\ Inject(IF ~uploadOk THEN 1 ELSE Cnt(~reached))
              /\ ex' = [ex EXCEPT ![n] = e]
              /\ jobs' = IF uploadOk /\ finishOk
                         THEN [jobs EXCEPT
                                 ![j].finished = TRUE,
                                 ![j].success = FinishArgs(ex[n]).success]
                         ELSE jobs
              /\ backoff' = [backoff EXCEPT
                               ![n] = IF e.raised
                                      THEN SleepNext(BackendErrorWait, @)
                                      ELSE SleepReset]
    /\ pc' = [pc EXCEPT ![n] = AfterIteration(n)]
    /\ UNCHANGED <<interval, cfg>>

----------------------------------------------------------------------------
(* The simple poller: poll() of core/poll/_simple.py with                  *)
(* DefaultJobPrepper.prepare_job, inside launch_jobs' loop.                *)

MaxCands == 2           \* candidates of one listing
MaxLists == 3           \* list_jobs calls of one poll()
MaxPolls == 2           \* poll() calls of launch_jobs
MaxRegs == 4            \* failed register_node calls of launch_jobs

\* What becomes of a candidate in prepare_job: the matcher accepts or
\* rejects it, or jobtemplate_retrieve, the executor's constructor or
\* can_run raises.
CandidateKinds ==
    {"accept", "reject", "template_fails", "construct_fails", "matcher_raises"}

Listings == UNION {[1..n -> CandidateKinds] : n \in 0..MaxCands}

\* create_executor(job): the executor, or the exception of the template
\* retrieval or of the constructor.
CreateExecutor(kind) ==
    IF kind \in {"template_fails", "construct_fails"} THEN "raise"
    ELSE "executor"

\* prepare_job(job): nothing is caught; a reason of can_run gives None.
PrepareJob(kind) ==
    IF CreateExecutor(kind) = "raise" \/ kind = "matcher_raises" THEN "raise"
    ELSE IF kind = "reject" THEN NONE
    ELSE "executor"

NoPass == [prepared |-> {}, built |-> {}, matched |-> {}, result |-> 0,
           raised |-> FALSE]

\* A loop over the candidates without the break: every candidate is
\* prepared and the last accepted one is kept.
RECURSIVE ForLoopNoBreak(_, _, _)
ForLoopNoBreak(cands, i, acc) ==
    IF i > Len(cands) THEN acc
    ELSE LET made == CreateExecutor(cands[i]) = "executor"
             a == [acc EXCEPT !.prepared = @ \cup {i},
                              !.built = IF made THEN @ \cup {i} ELSE @,
                              !.matched = IF made THEN @ \cup {i} ELSE @]
         IN  IF PrepareJob(cands[i]) = "raise" THEN [a EXCEPT !.raised = TRUE]
             ELSE IF PrepareJob(cands[i]) # NONE
             THEN ForLoopNoBreak(cands, i + 1, [a EXCEPT !.result = i])
             ELSE ForLoopNoBreak(cands, i + 1, a)

\* poll()'s `for job in jobs` from candidate i on: prepare_job is called on
\* each candidate in list order; its exception leaves the loop (and poll),
\* its executor ends the loop.  prepared, built, matched: the candidates on
\* which prepare_job was called, an executor constructed, can_run called.
RECURSIVE ForLoop(_, _, _)
ForLoop(cands, i, acc) ==
    IF i > Len(cands) THEN acc
    ELSE LET made == CreateExecutor(cands[i]) = "executor"
             a == [acc EXCEPT !.prepared = @ \cup {i},
                              !.built = IF made THEN @ \cup {i} ELSE @,
                              !.matched = IF made THEN @ \cup {i} ELSE @]
         IN  IF PrepareJob(cands[i]) = "raise" THEN [a EXCEPT !.raised = TRUE]
             ELSE IF PrepareJob(cands[i]) # NONE THEN [a EXCEPT !.result = i]
             ELSE ForLoop(cands, i + 1, a)

\* pc: "polling" inside poll(), "returned" with the executor, "raised" when
\* an exception has left poll(), "exit" when launch_jobs has ended.
\* listed: the last list_jobs call returned a listing;
\* listing and pass: the last listing and what the loop did with it; lists:
\* the list_jobs calls of this poll(); current: the index of poll()'s sleep
\* schedule; slept: the durations slept in this poll(); backoff: the index
\* of launch_jobs' schedule and bslept the durations slept on it; method:
\* config.general.poll; exitcode: the process's exit code, -1 while it
\* runs; "startup" and "register" are the pcs before the main loop; regs:
\* the failed registrations; reg: the last register_node call (whether the
\* node was stored, the current job the backend reported, what the finish
\* call did, the boolean returned, the calls made for the job); last: what
\* the launcher's schedule was last used for; interrupted: where the last
\* step was hit by a KeyboardInterrupt ("poll": inside poll(), "stage":
\* inside a stage of executor.run(), "between": in run() outside its try
\* statements).
PollerIdle == [pc |-> "idle", continuous |-> FALSE, polls |-> 0,
               listed |-> FALSE, listing |-> <<>>, pass |-> NoPass,
               lists |-> 0,
               current |-> 0, slept |-> <<>>, backoff |-> 0,
               method |-> "simple", exitcode |-> -1, regs |-> 0,
               reg |-> [updated |-> FALSE, current_job |-> NULL,
                        finish |-> "none", ok |-> FALSE, calls |-> <<>>],
               bslept |-> <<>>, last |-> "none", interrupted |-> "none"]

\* poll() is entered: result = None and a new SleepSchedule.
PollEnter(p) ==
    [p EXCEPT !.pc = "polling", !.polls = @ + 1, !.listed = FALSE,
              !.listing = <<>>,
              !.pass = NoPass, !.lists = 0, !.current = SleepReset,
              !.slept = <<>>]

\* One pass of poll()'s while loop: list_jobs (which may raise), the loop
\* over the candidates, then the return of the executor or the sleep and
\* the advance of the schedule.  A KeyboardInterrupt during the pass leaves
\* poll() and is caught by launch_jobs' own clause, which leaves the main
\* loop: launch_jobs and main return and sys_main returns 0.
PollPass ==
    /\ poller.pc = "polling"
    /\ poller.lists < MaxLists
    /\ \E listOk, interrupt \in BOOLEAN, cands \in Listings :
          LET p == [poller EXCEPT !.lists = @ + 1, !.listed = listOk,
                                  !.interrupted = "none"]
              r == ForLoop(cands, 1, NoPass)
          IN  IF interrupt
              THEN poller' = [poller EXCEPT !.pc = "exit", !.exitcode = 0,
                                            !.interrupted = "poll"]
              ELSE IF ~listOk
              THEN poller' = [p EXCEPT !.pc = "raised", !.listing = <<>>,
                                       !.pass = NoPass]
              ELSE IF r.raised
              THEN poller' = [p EXCEPT !.pc = "raised", !.listing = cands,
                                       !.pass = r]
              ELSE IF r.result # 0
              THEN poller' = [p EXCEPT !.pc = "returned", !.listing = cands,
                                       !.pass = r]
              ELSE poller' =
                     [p EXCEPT !.listing = cands, !.pass = r,
                               !.slept = Append(@, SleepSeconds(PollInterval,
                                                                p.current)),
                               !.current = SleepNext(PollInterval, @)]

\* create_dir: a directory that cannot be created ends the process with
\* exit(1); the call is outside every try statement.
CreateDir(p, ok) ==
    IF p.pc = "exit" \/ ok THEN p
    ELSE [p EXCEPT !.pc = "exit", !.exitcode = 1]

\* launch_jobs up to its registration loop: the work directory, then the
\* cache directory.
LaunchStart ==
    /\ poller.pc = "startup"
    /\ \E workOk, cacheOk \in BOOLEAN :
          LET p == CreateDir(CreateDir(poller, workOk), cacheOk)
          IN  poller' = IF p.pc = "exit" THEN p
                        ELSE [p EXCEPT !.pc = "register"]

\* The head of the try block of launch_jobs' main loop: the poller is built
\* for the method "simple"; for any other method exit(1) raises SystemExit
\* inside the try block, where the bare except clause catches it.
LoopTop(p) ==
    IF p.method = "simple"
    THEN PollEnter(p)
    ELSE [p EXCEPT !.pc = "raised", !.polls = @ + 1]

\* The end of one iteration of the main loop: the next iteration when
\* polling continuously, otherwise launch_jobs returns and the process ends
\* with code 0.
LoopEnd(p) ==
    IF p.continuous THEN LoopTop(p)
    ELSE [p EXCEPT !.pc = "exit", !.exitcode = 0]

\* launch_jobs' handler of anything but a KeyboardInterrupt raised in the
\* try block: it sleeps, advances its own schedule, and goes on.
LaunchHandles ==
    /\ poller.pc = "raised"
    /\ poller.continuous => poller.polls < MaxPolls
    /\ poller' =
         LoopEnd([poller EXCEPT
                    !.bslept = Append(@, SleepSeconds(BackendErrorWait,
                                                      poller.backoff)),
                    !.backoff = SleepNext(BackendErrorWait, @),
                    !.last = "failed"])

\* A register_node that resets and releases the job whatever error reason
\* the finish call returned.
RegisterNodeResetsAnyway(updateOk, current_job, finish, resetOk) ==
    LET call(op, args) == [op |-> op, job |-> current_job, args |-> args]
        error == "Node restarted during job execution."
        finishes == <<call("finish", <<"False", "", error>>)>>
        resets == IF resetOk
                  THEN <<call("reset", <<>>), call("release", <<>>)>>
                  ELSE <<call("reset", <<>>)>>
    IN  IF ~updateOk THEN [ok |-> FALSE, calls |-> <<>>]
        ELSE IF current_job = NULL THEN [ok |-> TRUE, calls |-> <<>>]
        ELSE IF finish # "raise"
        THEN [ok |-> TRUE, calls |-> finishes \o resets]
        ELSE [ok |-> TRUE, calls |-> finishes]

\* A register_node that reports success although the node was not stored.
RegisterNodeAlwaysTrue(updateOk, current_job, finish, resetOk) ==
    [ok |-> TRUE, calls |-> <<>>]

\* register_node: the node is listed and updated or created (updateOk); a
\* current job is finished as failed, and reset and released when the finish
\* call returned the reason sent (finish: it returns the job with the error
\* reason "same" as sent or an "other" one, or it raises).  The result is
\* the boolean returned and the calls made for the current job.
RegisterNode(updateOk, current_job, finish, resetOk) ==
    LET call(op, args) == [op |-> op, job |-> current_job, args |-> args]
        error == "Node restarted during job execution."
        finishes == <<call("finish", <<"False", "", error>>)>>
        resets == IF resetOk
                  THEN <<call("reset", <<>>), call("release", <<>>)>>
                  ELSE <<call("reset", <<>>)>>
    IN  IF ~updateOk THEN [ok |-> FALSE, calls |-> <<>>]
        ELSE IF current_job = NULL THEN [ok |-> TRUE, calls |-> <<>>]
        ELSE IF finish = "same"
        THEN [ok |-> TRUE, calls |-> finishes \o resets]
        ELSE [ok |-> TRUE, calls |-> finishes]

\* launch_jobs' registration loop: a failed registration sleeps and
\* advances the schedule, a successful one resets it and enters the main
\* loop.
LaunchRegisters ==
    /\ poller.pc = "register"
    /\ \E updateOk, resetOk \in BOOLEAN, current_job \in {NULL, 1},
          finish \in {"same", "other", "raise"} :
          /\ ~updateOk => poller.regs < MaxRegs
          /\ LET r == RegisterNode(updateOk, current_job, finish, resetOk)
                 seen == [updated |-> updateOk, current_job |-> current_job,
                          finish |-> finish, ok |-> r.ok, calls |-> r.calls]
             IN  poller' =
                   IF r.ok
                   THEN LoopTop([poller EXCEPT !.reg = seen,
                                               !.backoff = SleepReset,
                                               !.last = "registered"])
                   ELSE [poller EXCEPT
                           !.regs = @ + 1, !.reg = seen,
                           !.bslept = Append(@, SleepSeconds(
                                          BackendErrorWait, poller.backoff)),
                           !.backoff = SleepNext(BackendErrorWait, @),
                           !.last = "failed"]

\* The executor that poll() returned is run, then the schedule is reset.
\* run() wraps each of its three stages in a bare except clause, so a
\* KeyboardInterrupt raised inside a stage is logged as that stage's failure
\* and run() returns normally; one raised in run() outside the try
\* statements reaches launch_jobs' own clause, which leaves the main loop.
LaunchRuns ==
    /\ poller.pc = "returned"
    /\ poller.continuous => poller.polls < MaxPolls
    /\ \E interrupt \in {"none", "stage", "between"} :
          poller' =
            IF interrupt = "between"
            THEN [poller EXCEPT !.pc = "exit", !.exitcode = 0,
                                !.interrupted = interrupt]
            ELSE LoopEnd([poller EXCEPT !.backoff = SleepReset,
                                        !.last = "ran",
                                        !.interrupted = interrupt])

----------------------------------------------------------------------------
(* The executor's command runner, _execute.                                *)

MaxLines == 2           \* output lines one subprocess writes
MaxExecs == 1           \* _execute calls of the executor
MaxReports == 1         \* progress() calls made outside _execute

\* The calls of the Docker executor: the command (argv list) and the
\* strings to hide (None is the set {}) of _pull_image and of the two forms
\* of _login_registry.
Commands ==
    {[cmd |-> <<"docker", "pull", "image">>, hide |-> {}],
     [cmd |-> <<"docker", "login", "-u", "user", "--password-stdin",
                "registry">>,
      hide |-> {"user"}],
     [cmd |-> <<"docker", "login", "-u", "user", "-p", "password",
                "registry">>,
      hide |-> {"user", "password"}]}

\* Exit codes a subprocess may end with.
ExitCodes == {0, 1, 255}

\* _execute's `full`: the command behind sudo (and -S) when sudo is used.
Full(use_sudo, ask_sudo_pw, no_sudo, cmd) ==
    IF use_sudo /\ ~no_sudo
    THEN (IF ask_sudo_pw THEN <<"sudo", "-S">> ELSE <<"sudo">>) \o cmd
    ELSE cmd

\* An _execute_can_use_stdin that always says no.
StdinNever(use_sudo, ask_sudo_pw, no_sudo) == FALSE

\* _execute_can_use_stdin
ExecuteCanUseStdin(use_sudo, ask_sudo_pw, no_sudo) ==
    ~(use_sudo /\ ~no_sudo /\ ask_sudo_pw)

\* An _obscure that hides nothing.
ObscureNothing(args, hide) == args

\* _obscure(args, hide): hide None or empty is the set {} here.
Obscure(args, hide) ==
    IF hide = {} THEN args
    ELSE [i \in DOMAIN args |-> IF args[i] \in hide THEN "***" ELSE args[i]]

\* " ".join(args)
RECURSIVE Join(_)
Join(args) ==
    IF Len(args) = 0 THEN ""
    ELSE IF Len(args) = 1 THEN args[1]
    ELSE args[1] \o " " \o Join(Tail(args))

\* The CompletedProcess of a cancelled run given as that of an exception.
CancelledAsError(full, lines) ==
    [args |-> full, returncode |-> 255, stdout |-> NONE,
     stderr |-> "traceback", origin |-> "cancelled"]

\* The CompletedProcess objects _execute builds (origin is not a field of the
\* object: it records which statement built it).  Lines 568, 573, 571/539.
CancelledResult(full, lines) ==
    [args |-> full, returncode |-> 255,
     stdout |-> Append(lines, "Job was cancelled"), stderr |-> NONE,
     origin |-> "cancelled"]

\* An except branch that reports the code 1.
ExceptionAsOne(full) ==
    [args |-> full, returncode |-> 1, stdout |-> NONE,
     stderr |-> "traceback", origin |-> "exception"]

ExceptionResult(full) ==
    [args |-> full, returncode |-> 255, stdout |-> NONE,
     stderr |-> "traceback", origin |-> "exception"]

ExitedResult(full, code, out, err) ==
    [args |-> full, returncode |-> code, stdout |-> out, stderr |-> err,
     origin |-> "process"]

NoResult ==
    [args |-> <<>>, returncode |-> 0, stdout |-> NONE, stderr |-> NONE,
     origin |-> "none"]

\* _to_logentry(completed, hide); exec is the number of the _execute call
\* (its index in calls) during or after which the entry is written.
ToLogEntry(completed, hide, exec) ==
    [kind |-> "result", exec |-> exec, cmd |-> Obscure(completed.args, hide),
     stdout |-> completed.stdout, stderr |-> completed.stderr,
     returncode |-> completed.returncode]

\* log_msg(text)
MsgEntry(text, exec) == [kind |-> "msg", exec |-> exec, msg |-> text]

\* is_job_cancelled() without the clock: due says whether the throttle lets
\* the call query the backend, retrieveOk whether job_retrieve returns.
CancelCheckOutcome(flag, backend, due, retrieveOk) ==
    IF flag THEN [flag |-> TRUE, outcome |-> "true"]
    ELSE IF ~due THEN [flag |-> FALSE, outcome |-> "false"]
    ELSE IF ~retrieveOk THEN [flag |-> FALSE, outcome |-> "raise"]
    ELSE [flag |-> backend, outcome |-> IF backend THEN "true" ELSE "false"]

\* pc: "idle" outside _execute, "loop" in its read loop, "after" behind it.
\* calls: [full, hide] of every _execute call that was not refused;
\* exitcode: the code the subprocess ended with, -1 while it has not;
\* prog: of the last progress() call, whether progress_job failed, whether
\* the immediate cancellation query was made, whether an exception left it;
\* login: how the Docker executor's _pre_run dealt with the registry login
\* ("none": not yet, "skipped", "stdin", "argv"), the image's registry
\* username, and the number of the login's _execute call.
ProcIdle ==
    [pc |-> "idle", use_sudo |-> FALSE, ask_sudo_pw |-> FALSE, execs |-> 0,
     calls |-> <<>>, always_return |-> TRUE, parser |-> FALSE,
     process |-> "none", exitcode |-> -1, lines |-> <<>>, flag |-> FALSE,
     backend |-> FALSE,
     log |-> <<>>, sent |-> 0, suppressed |-> 0, reports |-> 0,
     refused |-> 0, result |-> NoResult, returned |-> FALSE,
     prog |-> [failed |-> FALSE, queried |-> FALSE, raised |-> FALSE],
     login |-> [how |-> "none", username |-> NONE, exec |-> 0]]

\* The end of _execute: the log entry, then the return of the object or of
\* None.
ExecFinish(p, completed) ==
    [p EXCEPT !.pc = "idle",
              !.log = Append(@, ToLogEntry(completed, p.calls[Len(p.calls)].hide,
                                           Len(p.calls))),
              !.result = completed,
              !.returned = p.always_return \/ completed.returncode > 0]

\* A progress() that does not look at the cancellation flag.
ProgressUnchecked(p, due, retrieveOk, progressOk, retrieveOk2) ==
    [state |-> [p EXCEPT !.sent = @ + 1], raised |-> FALSE]

\* progress(progress, **data): nothing is sent when the job is known to be
\* cancelled; a failed progress_job is logged and followed by an immediate
\* cancellation check.  raised: an exception of is_job_cancelled leaves
\* progress().
Progress(p, due, retrieveOk, progressOk, retrieveOk2) ==
    LET c == CancelCheckOutcome(p.flag, p.backend, due, retrieveOk)
        q == [p EXCEPT !.flag = c.flag, !.prog = ProcIdle.prog]
    IN  IF c.outcome = "raise"
        THEN [state |-> [q EXCEPT !.prog.raised = TRUE], raised |-> TRUE]
        ELSE IF c.outcome = "true"
        THEN [state |-> [q EXCEPT !.suppressed = IF p.flag THEN @ + 1 ELSE @],
              raised |-> FALSE]
        ELSE LET s == [q EXCEPT !.sent = @ + 1] IN
             IF progressOk THEN [state |-> s, raised |-> FALSE]
             ELSE LET l == [s EXCEPT !.log = Append(@,
                              MsgEntry("Failed to update backend on progress",
                                       Len(p.calls)))]
                      c2 == CancelCheckOutcome(FALSE, p.backend, TRUE,
                                               retrieveOk2)
                  IN  [state |-> [l EXCEPT
                                    !.flag = c2.flag,
                                    !.prog = [failed |-> TRUE,
                                              queried |-> TRUE,
                                              raised |-> c2.outcome = "raise"]],
                       raised |-> c2.outcome = "raise"]

\* _execute(cmd, ..., stdin, hide) up to the read loop: the refusal of stdin
\* under a sudo that asks for the password, the 'Executing:' message, Popen
\* (spawnOk: it does not raise), and with stdin the whole communicate().
Execute(p0, call, stdin, no_sudo, always_return, parser, spawnOk, code) ==
    LET cmd == call.cmd
        hide == call.hide
        full == Full(p0.use_sudo, p0.ask_sudo_pw, no_sudo, cmd)
        p == [p0 EXCEPT
                !.execs = @ + 1,
                !.calls = Append(@, [full |-> full, hide |-> hide,
                                     stdin |-> stdin]),
                !.always_return = always_return,
                !.parser = parser,
                !.process = "none", !.exitcode = -1, !.lines = <<>>,
                !.result = NoResult, !.returned = FALSE,
                !.log = Append(@,
                   MsgEntry("Executing: " \o Join(Obscure(full, hide)),
                            Len(p0.calls) + 1))]
    IN  IF stdin /\ ~ExecuteCanUseStdin(p0.use_sudo, p0.ask_sudo_pw, no_sudo)
        THEN [p0 EXCEPT !.execs = @ + 1, !.refused = @ + 1]
        ELSE IF ~spawnOk THEN ExecFinish(p, ExceptionResult(full))
        ELSE IF stdin
        THEN ExecFinish([p EXCEPT !.process = "exited", !.exitcode = code],
                        ExitedResult(full, code, <<"out">>, <<"err">>))
        ELSE [p EXCEPT !.pc = "loop", !.process = "running"]

\* An _execute call of the executor, with any of its arguments.
ExecCall ==
    /\ proc.pc = "idle"
    /\ proc.execs < MaxExecs
    /\ \E call \in Commands, stdin \in BOOLEAN,
          no_sudo \in BOOLEAN, always_return \in BOOLEAN, parser \in BOOLEAN,
          spawnOk \in BOOLEAN, code \in ExitCodes :
          proc' = Execute(proc, call, stdin, no_sudo, always_return, parser,
                          spawnOk, code)

\* The registry login of the Docker executor's _pre_run: no login unless
\* the image has a registry username (_registry_login_required); then
\* _login_registry feeds the password on stdin when _execute can use
\* stdin, and otherwise gives it as an argument, hidden in the log.
LoginRegistry ==
    /\ proc.pc = "idle"
    /\ proc.login.how = "none"
    /\ proc.execs < MaxExecs
    /\ \E username \in {NONE, "", "user"}, spawnOk \in BOOLEAN,
          code \in ExitCodes :
          LET required == username # NONE /\ username # ""
              canStdin == ExecuteCanUseStdin(proc.use_sudo, proc.ask_sudo_pw,
                                             FALSE)
              call == IF canStdin
                      THEN [cmd |-> <<"docker", "login", "-u", username,
                                      "--password-stdin", "registry">>,
                            hide |-> {username}]
                      ELSE [cmd |-> <<"docker", "login", "-u", username,
                                      "-p", "password", "registry">>,
                            hide |-> {username, "password"}]
              how == IF ~required THEN "skipped"
                     ELSE IF canStdin THEN "stdin" ELSE "argv"
              p == IF required
                   THEN Execute(proc, call, canStdin, FALSE, FALSE, FALSE,
                                spawnOk, code)
                   ELSE proc
          IN  proc' = [p EXCEPT !.login = [how |-> how,
                                           username |-> username,
                                           exec |-> Len(p.calls)]]

\* One turn of the read loop: the cancellation check (terminate and break
\* when it is true), readline (eof: the output has ended), the line kept,
\* the progress parser and progress().  Any exception ends _execute through
\* its except branch.
ExecLoop ==
    /\ proc.pc = "loop"
    /\ \E due \in BOOLEAN, retrieveOk \in BOOLEAN, eof \in BOOLEAN,
          parsed \in {"none", "fails", "progress"}, pdue \in BOOLEAN,
          pretrieveOk \in BOOLEAN, progressOk \in BOOLEAN,
          retrieveOk2 \in BOOLEAN :
          LET full == proc.calls[Len(proc.calls)].full
              c == CancelCheckOutcome(proc.flag, proc.backend, due, retrieveOk)
              p == [proc EXCEPT !.flag = c.flag]
              r == [p EXCEPT !.lines = Append(@, "line")]
              g == Progress(r, pdue, pretrieveOk, progressOk, retrieveOk2)
          IN  /\ ~eof => Len(proc.lines) < MaxLines
              /\ IF c.outcome = "raise"
                 THEN proc' = ExecFinish(p, ExceptionResult(full))
                 ELSE IF c.outcome = "true"
                 THEN proc' = [p EXCEPT !.process = "terminated",
                                        !.pc = "after"]
                 ELSE IF eof THEN proc' = [p EXCEPT !.pc = "after"]
                 ELSE IF parsed = "none" \/ ~proc.parser THEN proc' = r
                 ELSE IF parsed = "fails"
                 THEN proc' = [r EXCEPT
                                 !.parser = FALSE,
                                 !.log = Append(@,
                                    MsgEntry("Failed to parse progress output, disabling!",
                                             Len(proc.calls)))]
                 ELSE IF g.raised
                 THEN proc' = ExecFinish(g.state, ExceptionResult(full))
                 ELSE proc' = g.state

\* Behind the loop: the second cancellation check, then the cancelled
\* result or process.wait() and the subprocess's own exit code.
ExecAfter ==
    /\ proc.pc = "after"
    /\ \E due \in BOOLEAN, retrieveOk \in BOOLEAN, code \in ExitCodes :
          LET full == proc.calls[Len(proc.calls)].full
              c == CancelCheckOutcome(proc.flag, proc.backend, due, retrieveOk)
              p == [proc EXCEPT !.flag = c.flag]
          IN  IF c.outcome = "raise"
              THEN proc' = ExecFinish(p, ExceptionResult(full))
              ELSE IF c.outcome = "true"
              THEN proc' = ExecFinish(p, CancelledResult(full, proc.lines))
              ELSE proc' = ExecFinish([p EXCEPT !.process = "exited",
                                                !.exitcode = code],
                              ExitedResult(full, code, proc.lines, NONE))

\* progress() called by the job's own code, outside _execute.
ProgressReport ==
    /\ proc.pc = "idle"
    /\ proc.reports < MaxReports
    /\ \E due \in BOOLEAN, retrieveOk \in BOOLEAN, progressOk \in BOOLEAN,
          retrieveOk2 \in BOOLEAN :
          proc' = [Progress(proc, due, retrieveOk, progressOk,
                            retrieveOk2).state EXCEPT !.reports = @ + 1]

\* The backend marks the job as cancelled.
ProcCancelByBackend ==
    /\ ~proc.backend
    /\ proc' = [proc EXCEPT !.backend = TRUE]

AuxIdle == poller = PollerIdle /\ proc = ProcIdle

----------------------------------------------------------------------------
(* The specifications.                                                     *)

Configs == [continuous : BOOLEAN, keep_job_dirs : BOOLEAN]

Init ==
    /\ jobs = [j \in Jobs |-> NewJob]
    /\ pc = [n \in Nodes |-> "register"]
    /\ ex = [n \in Nodes |-> NoExecutor]
    /\ backoff = [n \in Nodes |-> 0]
    /\ interval = [n \in Nodes |-> 0]
    /\ cfg \in [Nodes -> Configs]
    /\ faults = 0
    /\ sched = SchedIdle /\ cancel = CancelIdle
    /\ pack = PackIdle /\ match = MatchIdle /\ filt = FilterIdle
    /\ AuxIdle

Next ==
    \E n \in Nodes :
        \/ Register(n) /\ UNCHANGED <<sched, cancel, pack, match, filt, poller, proc>>
        \/ Poll(n) /\ UNCHANGED <<sched, cancel, pack, match, filt, poller, proc>>
        \/ PreRunAcquire(n) /\ UNCHANGED <<sched, cancel, pack, match, filt, poller, proc>>
        \/ PreRunStart(n) /\ UNCHANGED <<sched, cancel, pack, match, filt, poller, proc>>
        \/ DoRun(n) /\ UNCHANGED <<sched, cancel, pack, match, filt, poller, proc>>
        \/ PostRun(n) /\ UNCHANGED <<sched, cancel, pack, match, filt, poller, proc>>

Spec == Init /\ [][Next]_vars

\* The launcher running executors of the intermediate iteration, up to the
\* call of _do_run.
NextPreRun ==
    \E n \in Nodes :
        \/ Register(n) /\ UNCHANGED <<sched, cancel, pack, match, filt, poller, proc>>
        \/ Poll(n) /\ UNCHANGED <<sched, cancel, pack, match, filt, poller, proc>>
        \/ IntermediatePreRun(n)
             /\ UNCHANGED <<sched, cancel, pack, match, filt, poller, proc>>
        \/ DoRun(n) /\ UNCHANGED <<sched, cancel, pack, match, filt, poller, proc>>

SpecPreRun == Init /\ [][NextPreRun]_vars

MainIdle ==
    /\ jobs = <<>> /\ pc = <<>> /\ ex = <<>> /\ backoff = <<>>
    /\ interval = <<>> /\ cfg = <<>> /\ faults = 0

InitSleep ==
    /\ \E v \in {"core", "legacy"}, s \in Schedules : sched = SchedConstruct(v, s)
    /\ MainIdle
    /\ cancel = CancelIdle /\ pack = PackIdle /\ match = MatchIdle
    /\ filt = FilterIdle /\ AuxIdle

NextSleep ==
    \/ SchedSleep /\ UNCHANGED <<mainVars, cancel, pack, match, filt, poller, proc>>
    \/ SchedNext /\ UNCHANGED <<mainVars, cancel, pack, match, filt, poller, proc>>
    \/ SchedReset /\ UNCHANGED <<mainVars, cancel, pack, match, filt, poller, proc>>

SpecSleep == InitSleep /\ [][NextSleep]_vars

InitCancel ==
    /\ cancel = CancelIdle
    /\ MainIdle
    /\ sched = SchedIdle /\ pack = PackIdle /\ match = MatchIdle
    /\ filt = FilterIdle /\ AuxIdle

NextCancel ==
    \/ CancelCheck /\ UNCHANGED <<mainVars, sched, pack, match, filt, poller, proc>>
    \/ CancelTick /\ UNCHANGED <<mainVars, sched, pack, match, filt, poller, proc>>
    \/ CancelByBackend /\ UNCHANGED <<mainVars, sched, pack, match, filt, poller, proc>>

SpecCancel == InitCancel /\ [][NextCancel]_vars

InitPack ==
    /\ pack = PackIdle
    /\ MainIdle
    /\ sched = SchedIdle /\ cancel = CancelIdle /\ match = MatchIdle
    /\ filt = FilterIdle /\ AuxIdle

NextPack ==
    \/ PackCall /\ UNCHANGED <<mainVars, sched, cancel, match, filt, poller, proc>>
    \/ PackDiskChange /\ UNCHANGED <<mainVars, sched, cancel, match, filt, poller, proc>>

SpecPack == InitPack /\ [][NextPack]_vars

InitMatch ==
    /\ \E hw \in HardwareInfos, image \in DockerImages :
          match = [MatchIdle EXCEPT !.hw = hw, !.image = image]
    /\ MainIdle
    /\ sched = SchedIdle /\ cancel = CancelIdle /\ pack = PackIdle
    /\ filt = FilterIdle /\ AuxIdle

NextMatch ==
    MatchCall /\ UNCHANGED <<mainVars, sched, cancel, pack, filt, poller, proc>>

SpecMatch == InitMatch /\ [][NextMatch]_vars

\* The Docker executor runs an image: the image and what `docker --version`
\* gives (exit code 0 or 1 of the engine with the output as a list of
\* lines, or 255 with no output from _execute's except branch).
InitGpu ==
    /\ \E image \in DockerImages,
          version \in {[major |-> 18, minor |-> <<0, 9>>],
                       [major |-> 19, minor |-> <<0, 3>>],
                       [major |-> 20, minor |-> <<1, 0>>]},
          outcome \in {<<0, "list">>, <<1, "list">>, <<255, "None">>} :
          match = [MatchIdle EXCEPT
                     !.image = image,
                     !.engine = [version |-> version,
                                 returncode |-> outcome[1],
                                 stdout |-> outcome[2]]]
    /\ MainIdle
    /\ sched = SchedIdle /\ cancel = CancelIdle /\ pack = PackIdle
    /\ filt = FilterIdle /\ AuxIdle

NextGpu ==
    RunImage /\ UNCHANGED <<mainVars, sched, cancel, pack, filt, poller, proc>>

SpecGpu == InitGpu /\ [][NextGpu]_vars

InitFilter ==
    /\ \E table \in [Jobs -> ListedJobs], hw \in PollerHardware :
          filt = [FilterIdle EXCEPT !.table = table, !.hw = hw]
    /\ MainIdle
    /\ sched = SchedIdle /\ cancel = CancelIdle /\ pack = PackIdle
    /\ match = MatchIdle /\ AuxIdle

NextFilter ==
    FilterList /\ UNCHANGED <<mainVars, sched, cancel, pack, match, poller, proc>>

SpecFilter == InitFilter /\ [][NextFilter]_vars

InitPoll ==
    /\ \E c \in BOOLEAN, m \in {"simple", "other"} :
          poller = [PollerIdle EXCEPT !.pc = "startup", !.continuous = c,
                                      !.method = m]
    /\ MainIdle
    /\ sched = SchedIdle /\ cancel = CancelIdle /\ pack = PackIdle
    /\ match = MatchIdle /\ filt = FilterIdle /\ proc = ProcIdle

NextPoll ==
    \/ PollPass /\ UNCHANGED <<mainVars, sched, cancel, pack, match, filt, proc>>
    \/ LaunchHandles
         /\ UNCHANGED <<mainVars, sched, cancel, pack, match, filt, proc>>
    \/ LaunchStart
         /\ UNCHANGED <<mainVars, sched, cancel, pack, match, filt, proc>>
    \/ LaunchRegisters
         /\ UNCHANGED <<mainVars, sched, cancel, pack, match, filt, proc>>
    \/ LaunchRuns
         /\ UNCHANGED <<mainVars, sched, cancel, pack, match, filt, proc>>

SpecPoll == InitPoll /\ [][NextPoll]_vars

\* launch_jobs is one sequential program: while it has not ended its next
\* step is taken.  (A backend that refuses the registration for ever is
\* excluded by MaxRegs.)
SpecPollLive == SpecPoll /\ WF_vars(NextPoll)

InitExec ==
    /\ \E s \in BOOLEAN, a \in BOOLEAN :
          proc = [ProcIdle EXCEPT !.use_sudo = s, !.ask_sudo_pw = a]
    /\ MainIdle
    /\ sched = SchedIdle /\ cancel = CancelIdle /\ pack = PackIdle
    /\ match = MatchIdle /\ filt = FilterIdle /\ poller = PollerIdle

execOthers == <<mainVars, sched, cancel, pack, match, filt, poller>>

NextExec ==
    \/ ExecCall /\ UNCHANGED execOthers
    \/ LoginRegistry /\ UNCHANGED execOthers
    \/ ExecLoop /\ UNCHANGED execOthers
    \/ ExecAfter /\ UNCHANGED execOthers
    \/ ProgressReport /\ UNCHANGED execOthers
    \/ ProcCancelByBackend /\ UNCHANGED execOthers

SpecExec == InitExec /\ [][NextExec]_vars

----------------------------------------------------------------------------
(* The claims.                                                             *)

\* The runs that have returned.
Done(n) == ex[n].state = "done"
PostRunFailed(n) ==
    Len(ex[n].log) > 0
    /\ ex[n].log[Len(ex[n].log)] = "Failed to execute post-run code"

(* C1: of every run() that has returned and whose PreRun failed (returned  *)
(* failure or raised): DoRun was never invoked, PostRun was executed       *)
(* exactly once, and in it both the log upload and the backend finish call *)
(* were attempted.                                                         *)
C1_PreRunFailureStillReports ==
    \A n \in Nodes :
        Done(n) /\ ~ex[n].pre =>
            /\ ex[n].doRuns = 0
            /\ ex[n].postRuns = 1
            /\ ex[n].uploads = 1
            /\ Len(ex[n].finishes) = 1

(* C2: of every run() that has returned: PostRun called the backend's      *)
(* finish exactly once, with success = (PreRun succeeded and DoRun         *)
(* succeeded), and with an error string exactly when one of them failed.   *)
C2_FinishCalledOnceWithOutcome ==
    \A n \in Nodes :
        Done(n) =>
            /\ Len(ex[n].finishes) = 1
            /\ ex[n].finishes[1].success = (ex[n].pre /\ ex[n].do)
            /\ (ex[n].finishes[1].error # ABSENT) = ~(ex[n].pre /\ ex[n].do)

C4_AcquireRaceLoserContinues ==
    \A n \in Nodes :
        LET j == ex[n].job IN
        /\ ex[n].acq = "ok" =>
              \A m \in Nodes \ {n} : ~(ex[m].job = j /\ ex[m].acq = "ok")
        /\ ex[n].acq = "refused" => jobs[j].node \notin {NULL, n}
        /\ ex[n].acq \in {"refused", "error"} =>
              /\ ~ex[n].pre /\ ex[n].error = "none" /\ ~ex[n].raised
              /\ ex[n].doRuns = 0
              /\ pc[n] # "do_run"
              /\ Done(n) =>
                    pc[n] = (IF cfg[n].continuous THEN "poll" ELSE "exit")

\* Two nodes raced for one job; the loser's run has returned and it polls.
C4_Witness ==
    \E n \in Nodes, m \in Nodes :
        /\ n # m /\ ex[n].job = ex[m].job
        /\ ex[n].acq = "ok" /\ ex[m].acq = "refused"
        /\ Done(m) /\ cfg[m].continuous /\ pc[m] = "poll"

(* C5: a job that a node has acquired is in no list a poll obtains: the    *)
(* filter of generate_filter, in the core poller and in the legacy poller, *)
(* admits only jobs whose start_time is null and whose node is null.       *)
C5_OwnedJobNeverListed ==
    filt.listed =>
        \A j \in Range(filt.result) :
            filt.table[j].node = NULL /\ ~filt.table[j].started

C7_AdvanceClampsNeverWraps ==
    ~sched.raised =>
        sched.current = Min(sched.advances, Len(sched.schedule) - 1)

\* The two latest calls of is_job_cancelled were less than the wait apart.
CloseCalls ==
    /\ cancel.prev.t >= 0
    /\ cancel.cur.t - cancel.prev.t < CancelCheckWait

NoneIsAFile ==
    \A i \in 1..Len(pack.last) : pack.disk[pack.last[i]] # "file"

(* C9: a call of _compress_and_upload with an empty file list, or with a   *)
(* list none of whose files exists, hands nothing to the backend, does not *)
(* raise, and appends one entry to the log.                                *)
C9_NothingToUploadIsLogged ==
    pack.calls = 1 /\ NoneIsAFile =>
        /\ pack.uploads = <<>>
        /\ ~pack.raised
        /\ Len(pack.log) = 1
        /\ pack.log[1] = (IF Len(pack.last) = 0 THEN "No files supplied"
                          ELSE "None of the files are present")

\* The call was made with two paths, one missing and one a directory.
C9_Witness ==
    /\ pack.calls = 1 /\ Len(pack.last) = 2 /\ NoneIsAFile
    /\ pack.disk[pack.last[1]] = "absent" /\ pack.disk[pack.last[2]] = "dir"
    /\ pack.log = <<"None of the files are present">>

\* The snapshot lacks GPU capability: the GPU collection is absent or empty,
\* or the driver or the CUDA version is absent, or GPU 0 has no compute
\* capability.
LacksGpuCapability(hw) ==
    \/ "gpus" \notin DOMAIN hw
    \/ Len(hw["gpus"]) = 0
    \/ "driver" \notin DOMAIN hw
    \/ "cuda" \notin DOMAIN hw
    \/ "compute" \notin DOMAIN hw["gpus"][1]

WithoutGpus(hw) == [k \in DOMAIN hw \ {"gpus"} |-> hw[k]]

(* C10: on a snapshot that lacks GPU capability can_run returns None       *)
(* exactly when the image is CPU-only and a reason (it does not raise)     *)
(* otherwise; a snapshot with an empty GPU collection gets the result of   *)
(* the same snapshot without the collection.                               *)
C10_NoGpuNodeRunsCpuOnly ==
    match.called /\ LacksGpuCapability(match.hw.info) =>
        /\ (match.result = NONE) = match.image.cpu
        /\ match.result # "raise"
        /\ "gpus" \in DOMAIN match.hw.info /\ Len(match.hw.info["gpus"]) = 0 =>
              match.result =
                 CanRun([match.hw EXCEPT !.info = WithoutGpus(@)],
                        match.image, TRUE)

\* The number a run of decimal digits denotes.
RECURSIVE DigitsValue(_)
DigitsValue(s) ==
    IF Len(s) = 0 THEN 0
    ELSE DigitsValue(SubSeq(s, 1, Len(s) - 1)) * 10 + (s[Len(s)] - 48)

\* A version "major.minor" as a version number: the pair of its components.
DotAt(s) == CHOOSE i \in 1..Len(s) : s[i] = 46
Major(s) == DigitsValue(SubSeq(s, 1, DotAt(s) - 1))
Minor(s) == DigitsValue(SubSeq(s, DotAt(s) + 1, Len(s)))
VersionGreater(a, b) ==
    \/ Major(a) > Major(b)
    \/ Major(a) = Major(b) /\ Minor(a) > Minor(b)

\* The reason the three rules give when versions are compared as version
\* numbers, the rules tried in the order CUDA, driver, compute.
NumericReason(d, image) ==
    IF VersionGreater(image.cuda_version.version, d["cuda"])
        THEN "CUDA version is too low"
    ELSE IF VersionGreater(image.cuda_version.min_driver_version, d["driver"])
        THEN "driver version is too low"
    ELSE IF /\ image.min_hardware_generation.present
            /\ image.min_hardware_generation.min_compute_capability
                 > d["gpus"][1]["compute"]
        THEN "compute capability is too low"
    ELSE NONE

(* C11: on a snapshot with GPU, driver and CUDA information can_run        *)
(* rejects exactly when the image's CUDA version, its minimum driver       *)
(* version or its generation's compute floor exceeds the snapshot's, the   *)
(* versions compared as version numbers and the rules tried in that order: *)
(* an image requiring CUDA 9.0 is accepted on CUDA 10.0.  (Calls that      *)
(* raise are left aside.)                                                  *)
C11_RejectsByVersionNumbers ==
    /\ match.called
    /\ ~LacksGpuCapability(match.hw.info)
    /\ match.image.cuda_version.present
    /\ match.result # "raise"
    => match.result = NumericReason(match.hw.info, match.image)

\* The calls of a run() in which every step succeeded.
HappyCalls == <<"acquire", "start", "do_run", "upload", "finish">>
HappyRun(n) ==
    Done(n) /\ ex[n].pre /\ ex[n].do /\ ex[n].log = <<>>

(* C12: for a job whose image is CPU-only, on a snapshot without GPU, the  *)
(* matcher accepts (can_run returns no reason), which is what lets the     *)
(* executor go on to acquire, start, DoRun, log upload and finish.         *)
C12_CpuOnlyJobIsAccepted ==
    /\ match.called
    /\ match.image.cpu
    /\ "gpus" \notin DOMAIN match.hw.info
    => match.result = NONE

(* C12, the run after the acceptance: when every step succeeds the calls   *)
(* are acquire, start, DoRun, the log upload and finish(success = true),   *)
(* in that order and each exactly once.                                    *)
C12_CallsInOrderOnce ==
    \A n \in Nodes :
        HappyRun(n) =>
            /\ ex[n].calls = HappyCalls
            /\ ex[n].finishes = <<[success |-> TRUE, error |-> ABSENT]>>

C12_RunWitness == \E n \in Nodes : HappyRun(n)

(* C13: when poll() returns, its executor is that of the first candidate   *)
(* of the listing, in list order, that the matcher accepts: every          *)
(* candidate before it was built and rejected by the matcher, and no       *)
(* candidate after it was built or matched.                                *)
C13_ReturnsFirstAccepted ==
    poller.pc = "returned" =>
        LET r == poller.pass.result IN
        /\ r \in 1..Len(poller.listing)
        /\ poller.listing[r] = "accept"
        /\ \A i \in 1..(r - 1) : poller.listing[i] = "reject"
        /\ poller.pass.built = 1..r
        /\ poller.pass.matched = 1..r

C13_Witness ==
    /\ poller.pc = "returned"
    /\ poller.pass.result = 2
    /\ poller.listing = <<"reject", "accept">>

FailsToBuild(kind) == kind \in {"template_fails", "construct_fails"}

(* C14: a candidate whose template retrieval or executor construction      *)
(* fails is skipped: the poller goes on to the next candidate of the same  *)
(* listing, and the failure ends neither poll() nor the polling loop.      *)
C14_FailedCandidateIsSkipped ==
    \A i \in poller.pass.prepared :
        FailsToBuild(poller.listing[i]) =>
            /\ poller.pc \notin {"raised", "exit"}
            /\ i < Len(poller.listing) => i + 1 \in poller.pass.prepared

\* A pass of poll()'s loop over a listing none of whose candidates the
\* matcher accepts.
PassWithoutAcceptance ==
    /\ poller.pc = "polling"
    /\ poller'.lists = poller.lists + 1
    /\ poller'.listed
    /\ \A i \in 1..Len(poller'.listing) : poller'.listing[i] # "accept"

SleepsAndListsAgain ==
    /\ poller'.pc = "polling"
    /\ poller'.slept =
          Append(poller.slept, SleepSeconds(PollInterval, poller.current))
    /\ poller'.current = SleepNext(PollInterval, poller.current)

(* C15: poll() never returns without an executor, and whenever no          *)
(* candidate of a listing is accepted it sleeps for the current duration   *)
(* of its schedule, advances the schedule and stays in its loop to list    *)
(* again.                                                                  *)
C15_NoAcceptanceSleepsAndRetries ==
    /\ [](poller.pc = "returned" => poller.pass.result # 0)
    /\ [][PassWithoutAcceptance => SleepsAndListsAgain]_vars

\* The same, of the listings in which no candidate makes prepare_job raise.
NothingRaises ==
    \A i \in 1..Len(poller'.listing) :
        poller'.listing[i] \in {"accept", "reject"}
C15_RejectionsSleepAndRetry ==
    /\ [](poller.pc = "returned" => poller.pass.result # 0)
    /\ [][PassWithoutAcceptance /\ NothingRaises => SleepsAndListsAgain]_vars

\* The job directory of node n's executor has been made (the mkdir of
\* _pre_run is followed at once by the acquire call).
JobDirCreated(n) == ex[n].acq # "none"

(* C16: the temporary job directory made in PreRun is gone, when the keep  *)
(* flag is not set, by the time run() has returned - whichever of PreRun,  *)
(* DoRun or PostRun failed - and is never removed when the flag is set.    *)
C16_JobDirRemovedUnlessKept ==
    \A n \in Nodes :
        /\ Done(n) /\ ~cfg[n].keep_job_dirs => ~ex[n].dir
        /\ JobDirCreated(n) /\ cfg[n].keep_job_dirs => ex[n].dir

\* The loop's cancellation check has just returned true.
CancelSeenInLoop == proc.pc = "loop" /\ proc'.pc = "after" /\ proc'.flag

\* _execute returns from a run whose subprocess it had terminated.
ReturnsFromTerminated ==
    proc.pc = "after" /\ proc.process = "terminated" /\ proc'.pc = "idle"

C18_NoProgressOnceCancelled ==
    [][proc.flag => proc'.flag /\ proc'.sent = proc.sent]_vars

\* progress() was called with the flag already true, and returned at once.
C18_Witness == proc.flag /\ proc.suppressed > 0

(* C19: _execute reports the exit code 255 only when the agent itself      *)
(* failed before or while invoking the command: 255 is made up locally,    *)
(* and never the code with which the subprocess's own exit is reported.    *)
C19_Code255OnlyForAgentFailure ==
    proc.result.returncode = 255 => proc.result.origin = "exception"

(* C19, amended: 255 is made up locally for an exception (with the stack   *)
(* trace as stderr and no stdout) and for a job found cancelled (with the  *)
(* line "Job was cancelled" last in stdout and no stderr); otherwise the   *)
(* code reported is the one the subprocess ended with, 255 included.       *)
C19_Code255Amended ==
    /\ proc.result.origin = "exception" =>
          /\ proc.result.returncode = 255
          /\ proc.result.stderr = "traceback"
          /\ proc.result.stdout = NONE
    /\ proc.result.origin = "cancelled" =>
          /\ proc.result.returncode = 255
          /\ proc.result.stderr = NONE
          /\ proc.result.stdout[Len(proc.result.stdout)] = "Job was cancelled"
    /\ proc.result.origin = "process" =>
          /\ proc.result.returncode = proc.exitcode
          /\ proc.exitcode \in ExitCodes

\* The subprocess itself ended with 255, and 255 is what _execute reports.
C19_Witness ==
    /\ proc.pc = "idle"
    /\ proc.result.origin = "process"
    /\ proc.exitcode = 255
    /\ proc.result.returncode = 255

\* argv with every element that is one of the strings to hide replaced by
\* the placeholder.
Masked(args, hide) ==
    [i \in 1..Len(args) |-> IF args[i] \in hide THEN "***" ELSE args[i]]

\* The log entries of the k-th command execution, by kind.
EntriesOf(k, kind) ==
    {i \in 1..Len(proc.log) : proc.log[i].exec = k /\ proc.log[i].kind = kind}

ExecutionOver(k) == k < Len(proc.calls) \/ proc.pc = "idle"

OtherMessages ==
    {"Failed to update backend on progress",
     "Failed to parse progress output, disabling!"}

(* C20: every command execution appends to the structured log one result   *)
(* entry with the argv, the exit code and the captured output, and neither *)
(* that entry nor the 'Executing:' message holds a string the caller asked *)
(* to hide as an element of the argv: each is replaced by '***'.           *)
C20_LogEntryPerExecutionSecretsMasked ==
    \A k \in 1..Len(proc.calls) :
        LET call == proc.calls[k]
            shown == Masked(call.full, call.hide)
        IN  /\ \A i \in 1..Len(shown) : shown[i] \notin call.hide
            /\ \A i \in EntriesOf(k, "msg") :
                  \/ proc.log[i].msg = "Executing: " \o Join(shown)
                  \/ proc.log[i].msg \in OtherMessages
            /\ \E i \in EntriesOf(k, "msg") :
                  proc.log[i].msg = "Executing: " \o Join(shown)
            /\ \A i \in EntriesOf(k, "result") : proc.log[i].cmd = shown
            /\ ExecutionOver(k) =>
                  /\ Cardinality(EntriesOf(k, "result")) = 1
                  /\ k = Len(proc.calls) =>
                        \A i \in EntriesOf(k, "result") :
                            /\ proc.log[i].returncode = proc.result.returncode
                            /\ proc.log[i].stdout = proc.result.stdout
                            /\ proc.log[i].stderr = proc.result.stderr

\* A finished `sudo docker login ... -p password ...` with user and password
\* to hide.
C20_Witness ==
    /\ proc.pc = "idle"
    /\ Len(proc.calls) = 1
    /\ proc.calls[1].hide = {"user", "password"}
    /\ proc.calls[1].full[1] = "sudo"
    /\ \E i \in 1..Len(proc.calls[1].full) : proc.calls[1].full[i] = "password"
    /\ EntriesOf(1, "result") # {}

----------------------------------------------------------------------------
\* The process has ended in create_dir: no iteration of the main loop began.
EndedAtStartup == poller.pc = "exit" /\ poller.polls = 0

\* The launcher has met a poll method it does not know.
UnknownMethodMet == poller.method # "simple" /\ poller.polls > 0

\* The half of C21 that holds: a directory that cannot be created ends the
\* process with code 1 before the backend is contacted, without any sleep.
C21_DirectoryFailureExits ==
    EndedAtStartup =>
        poller.exitcode = 1 /\ poller.bslept = <<>> /\ poller.regs = 0

Unreached(e) == e.acq = "error" \/ e.st = "error"

\* The executor's calls up to the one that failed to reach the backend.
UpToFailure(e) ==
    IF e.acq = "error" THEN <<"acquire">> ELSE <<"acquire", "start">>

(* C22: every failure to communicate with the backend is followed by a     *)
(* sleep of the backoff schedule before the agent contacts the backend     *)
(* again.  run() never sleeps on that schedule, so after an acquire or     *)
(* start call that did not reach the backend the executor makes no further *)
(* backend call (no log upload, no finish call), and the launcher's        *)
(* schedule has advanced by the time the node lists jobs again.            *)
C22_BackendFailureBacksOff ==
    \A n \in Nodes :
        Unreached(ex[n]) =>
            /\ ex[n].calls = UpToFailure(ex[n])
            /\ pc[n] = "poll" => backoff[n] > 0

\* The entries of the executor's structured log, and of the log artifact
\* the backend holds for the job.
LogEntries(n) == Range(ex[n].log)
ArtifactEntries(n) == IF ex[n].uploaded THEN Range(ex[n].artifact) ELSE {}

(* C23: once a run is over, its structured log has been uploaded as the    *)
(* job's log artifact, also when the job failed, and every error recovered *)
(* during the run (of pre-run, do-run and post-run, a failed finish call   *)
(* included) is an entry of that artifact.                                 *)
C23_RecoveredErrorsAreInUploadedLog ==
    \A n \in Nodes :
        Done(n) => ex[n].uploaded /\ LogEntries(n) \subseteq ArtifactEntries(n)

\* The part of C23 that holds: the errors recovered before _post_run are in
\* the artifact whenever the upload itself succeeded.
C23_EarlierErrorsAreUploaded ==
    \A n \in Nodes :
        (Done(n) /\ ex[n].uploaded) =>
            LogEntries(n) \ {"Failed to finish job"} \subseteq
                ArtifactEntries(n)

\* The acquire or the start call of the executor failed (an HTTP error or
\* any other exception).
AcquireFailed(e) == e.acq \in {"refused", "error"}
StartFailed(e) == e.st \in {"refused", "error"}

(* C24: PreRun calls acquire before start and calls start only if acquire  *)
(* succeeded; an error of either call, an HTTP error or any other          *)
(* exception, is appended to the structured log and makes PreRun return    *)
(* failure without raising, so that DoRun is not invoked after a failed    *)
(* acquire or a failed start.                                              *)
C24_PreRunAcquiresThenStarts ==
    \A n \in Nodes :
        LET e == ex[n] IN
        /\ "start" \in Range(e.calls) =>
              /\ e.acq = "ok"
              /\ Len(e.calls) >= 2
              /\ e.calls[1] = "acquire" /\ e.calls[2] = "start"
        /\ AcquireFailed(e) => "Failed to acquire job" \in Range(e.log)
        /\ StartFailed(e) => "Failed to start job" \in Range(e.log)
        /\ (AcquireFailed(e) \/ StartFailed(e)) =>
              /\ ~e.pre
              /\ "Failed to execute pre-run code" \notin Range(e.log)
              /\ "do_run" \notin Range(e.calls)

\* A step of the launcher in which an operation failed: a registration that
\* returned false, or the handler of an exception that left poll/execute.
LauncherFailure ==
    \/ poller'.regs = poller.regs + 1
    \/ poller.pc = "raised" /\ poller' # poller

\* A step in which an operation succeeded: the node was registered, or the
\* executor poll() returned was run and run() returned.
LauncherSuccess ==
    \/ poller.pc = "register" /\ poller'.regs = poller.regs
                              /\ poller' # poller
    \/ poller.pc = "returned" /\ poller' # poller
                              /\ poller'.interrupted # "between"

\* The index after one more failure: one further, stopping at the last
\* entry of the schedule.
Clamped(i) == Min(i + 1, Len(BackendErrorWait) - 1)

(* C25: in the launcher loop every failure (a failed registration, an      *)
(* exception that leaves poll/execute) sleeps the duration at the          *)
(* schedule's current index and then advances the index by one, clamped at *)
(* the last entry; every success resets the index to 0; and the index      *)
(* changes in no other step, so it returns to 0 only after a success.      *)
C25_BackoffAdvancesPerFailure ==
    [][/\ LauncherFailure =>
             /\ poller'.bslept =
                  Append(poller.bslept, BackendErrorWait[poller.backoff + 1])
             /\ poller'.backoff = Clamped(poller.backoff)
       /\ LauncherSuccess =>
             poller'.backoff = 0 /\ poller'.bslept = poller.bslept
       /\ ~(LauncherFailure \/ LauncherSuccess) =>
             /\ poller'.backoff = poller.backoff
             /\ poller'.bslept = poller.bslept]_vars

\* Four failures in a row have slept 5, 10, 20 and 20 seconds.
C25_Witness ==
    /\ poller.bslept = <<5, 10, 20, 20>>
    /\ poller.backoff = 2

\* An entry of the executor's log reports a failed progress update.
ProgressFailureLogged ==
    \E i \in 1..Len(proc.log) :
        /\ proc.log[i].kind = "msg"
        /\ proc.log[i].msg = "Failed to update backend on progress"

\* The part of C26 that holds: a failed progress update is logged and is
\* followed at once by a cancellation query, whatever the throttle says.
C26_FailedProgressQueriesAtOnce ==
    (proc.prog.failed /\ ~proc.prog.raised) =>
        proc.prog.queried /\ ProgressFailureLogged

(* C26: when the progress update call fails, the executor logs the failed  *)
(* update and queries the backend for cancellation immediately, whatever   *)
(* the time since the last check, and no exception leaves progress().      *)
C26_FailedProgressDoesNotRaise ==
    proc.prog.failed => proc.prog.queried /\ ~proc.prog.raised

\* sudo with an interactive password prompt is in effect for the executor's
\* commands.
SudoPrompt == proc.use_sudo /\ proc.ask_sudo_pw

\* The Docker executor's _pre_run has decided about the registry login.
LoginDecided == proc.login.how # "none"
LoginPerformed == proc.login.how \in {"stdin", "argv"}

(* C27: the registry login is performed iff the image's registry username  *)
(* is non-empty.  When sudo with an interactive password prompt is not in  *)
(* effect the password is fed on stdin and is no element of the argv; it   *)
(* is an argument only when that sudo is in effect, and then the log shows *)
(* the placeholder in its place.                                           *)
C27_LoginPasswordOnStdinUnlessSudoPrompt ==
    LoginDecided =>
        /\ LoginPerformed <=> proc.login.username \notin {NONE, ""}
        /\ LoginPerformed =>
              LET k == proc.login.exec
                  call == proc.calls[k]
                  shown == Masked(call.full, call.hide)
              IN  /\ k \in 1..Len(proc.calls)
                  /\ "login" \in Range(call.full)
                  /\ ~SudoPrompt =>
                        /\ proc.login.how = "stdin" /\ call.stdin
                        /\ "password" \notin Range(call.full)
                  /\ "password" \in Range(call.full) =>
                        /\ SudoPrompt /\ ~call.stdin
                        /\ "password" \notin Range(shown)
                        /\ \A i \in EntriesOf(k, "result") :
                              proc.log[i].cmd = shown
                        /\ \A i \in EntriesOf(k, "msg") :
                              \/ proc.log[i].msg = "Executing: " \o Join(shown)
                              \/ proc.log[i].msg \in OtherMessages

\* A finished login under sudo with a password prompt, the password given
\* as an argument.
C27_Witness ==
    /\ proc.login.how = "argv"
    /\ SudoPrompt
    /\ proc.pc = "idle"
    /\ Cardinality(EntriesOf(proc.login.exec, "result")) = 1

\* A finished login without such a sudo: the password was fed on stdin.
C27_WitnessStdin ==
    /\ proc.login.how = "stdin"
    /\ ~SudoPrompt
    /\ proc.pc = "idle"

\* The GPU flags among the docker arguments of the run.
ModernGpuFlag == "--gpus=device" \in Range(match.run.flags)
LegacyGpuFlag == "--runtime=nvidia" \in Range(match.run.flags)

\* The engine's version is at least 19.03.
EngineAtLeast1903 ==
    \/ match.engine.version.major > 19
    \/ /\ match.engine.version.major = 19
       /\ match.engine.version.minor[1] * 10
            + match.engine.version.minor[2] >= 3

\* The part of C28 that holds: no GPU flag and no version query for a
\* CPU-only image.
C28_CpuOnlyHasNoGpuFlag ==
    (match.run.called /\ match.image.cpu) =>
        /\ ~ModernGpuFlag /\ ~LegacyGpuFlag
        /\ match.run.queries = 0 /\ ~match.run.raised

(* C28: running the image of a job that is not CPU-only, with an engine    *)
(* whose version query succeeds, the runner queries the version once and   *)
(* adds the per-device GPU selector when the version is at least 19.03 and *)
(* the legacy runtime flag when it is lower; for a CPU-only job it adds no *)
(* GPU flag.                                                               *)
C28_GpuFlagByEngineVersion ==
    /\ C28_CpuOnlyHasNoGpuFlag
    /\ (match.run.called /\ ~match.image.cpu
          /\ match.engine.returncode = 0) =>
          /\ ~match.run.raised
          /\ match.run.queries = 1
          /\ ModernGpuFlag <=> EngineAtLeast1903
          /\ LegacyGpuFlag <=> ~EngineAtLeast1903

\* _compress_and_upload was called with a list in which a file exists, the
\* archive could be written and every listed path can be given a name in
\* it.
PackableCall ==
    /\ pack.calls > 0
    /\ AnyPresent(pack.disk, pack.last)
    /\ pack.zipOk
    /\ \A i \in 1..Len(pack.last) :
          pack.strip = "True" \/ UnderPrefix(pack.last[i])

SomeListedMissing ==
    \E i \in 1..Len(pack.last) : pack.disk[pack.last[i]] = "absent"

\* The part of C29 that holds: when every listed path exists, the archive
\* is created and handed to the backend.
C29_AllPresentIsUploaded ==
    (PackableCall /\ ~SomeListedMissing) =>
        pack.zips = 1 /\ pack.uploads = <<pack.last>>

(* C29: _compress_and_upload called with a list in which at least one file *)
(* exists creates the archive and uploads it under the given output name,  *)
(* also when other listed files are missing.                               *)
C29_UploadsWhenSomeFileExists ==
    PackableCall => pack.zips = 1 /\ pack.uploads = <<pack.last>>

\* The operations register_node called for the node's current job, in
\* order.
RegOps == [i \in 1..Len(poller.reg.calls) |-> poller.reg.calls[i].op]

\* The backend stored the node and reported a job as its current one.
FoundCurrentJob ==
    poller.reg.updated /\ poller.reg.current_job # NULL

(* C30: when the backend reports a current job for the node being          *)
(* registered, the agent first calls finish for it with success false and  *)
(* the error 'Node restarted during job execution.'; it calls reset and    *)
(* then release only if that finish call succeeded and returned this same  *)
(* error reason; and the registration succeeds whatever these three calls  *)
(* did.  Without a current job none of them is called.                     *)
C30_RegistrationFinishesLeftoverJob ==
    /\ poller.reg.updated => poller.reg.ok
    /\ (poller.reg.updated /\ poller.reg.current_job = NULL) =>
          RegOps = <<>>
    /\ FoundCurrentJob =>
          /\ Len(RegOps) >= 1
          /\ poller.reg.calls[1] =
               [op |-> "finish", job |-> poller.reg.current_job,
                args |-> <<"False", "",
                           "Node restarted during job execution.">>]
          /\ \A i \in 1..Len(RegOps) :
                poller.reg.calls[i].job = poller.reg.current_job
          /\ RegOps \in {<<"finish">>, <<"finish", "reset">>,
                         <<"finish", "reset", "release">>}
          /\ Len(RegOps) > 1 <=> poller.reg.finish = "same"

\* The node is registered after a job it had left behind was finished,
\* reset and released.
C30_Witness ==
    /\ FoundCurrentJob
    /\ RegOps = <<"finish", "reset", "release">>
    /\ poller.pc = "polling"

\* The node is registered although the finish call raised.
C30_WitnessFinishRaised ==
    /\ FoundCurrentJob
    /\ poller.reg.finish = "raise"
    /\ poller.reg.ok /\ poller.pc = "polling"

\* _execute leaves its read loop and returns in this step.
ReturnsFromLoop == proc.pc = "loop" /\ proc'.pc = "idle"

(* C31: cancellation is observed at every output-line boundary of a        *)
(* container run, so once the backend has marked the job cancelled a       *)
(* subprocess that keeps writing lines is terminated: the read loop is not *)
(* left, with the job marked cancelled at the backend, while the           *)
(* subprocess is still running.                                            *)
C31_CancelledSubprocessIsTerminated ==
    [][(ReturnsFromLoop /\ proc.backend) => proc'.process # "running"]_vars

(* C32: a keyboard interrupt at any point of polling or of a job's         *)
(* execution ends the main loop cleanly: after a step that was interrupted *)
(* the launcher has left its loop and the exit code is 0.  (In single-shot *)
(* mode the loop is left after its one iteration anyway.)                  *)
C32_InterruptEndsTheLoop ==
    poller.interrupted # "none" => poller.pc = "exit" /\ poller.exitcode = 0

\* Two snapshots of the same type agree on the driver version, the CUDA
\* version and the GPU at index 0 (each of them the same value, or missing
\* in both).
SameUpToGpu0(a, b) ==
    LET key(hw, k) == IF k \in DOMAIN hw.info THEN <<hw.info[k]>> ELSE <<>>
        gpu0(hw) == IF "gpus" \in DOMAIN hw.info /\ Len(hw.info["gpus"]) > 0
                    THEN <<hw.info["gpus"][1]>> ELSE <<>>
    IN  /\ a.shape = b.shape
        /\ key(a, "driver") = key(b, "driver")
        /\ key(a, "cuda") = key(b, "cuda")
        /\ gpu0(a) = gpu0(b)

RegistrationTurn == poller.pc = "register" /\ poller' # poller
InMainLoop == poller.pc \in {"polling", "returned", "raised"}

(* C34: the agent repeats the registration until it succeeds: after each   *)
(* failed registration it sleeps for the current duration of its backoff   *)
(* schedule, advances the schedule and registers again, after the          *)
(* successful one it resets the schedule and enters its main loop; it      *)
(* polls only after a registration that stored the node; and, the backend  *)
(* accepting the registration in the end, it does enter its main loop.     *)
C34_RegistersBeforePolling ==
    /\ [][RegistrationTurn /\ ~poller'.reg.updated =>
            /\ poller'.pc = "register"
            /\ poller'.bslept = Append(poller.bslept,
                     SleepSeconds(BackendErrorWait, poller.backoff))
            /\ poller'.backoff = SleepNext(BackendErrorWait, poller.backoff)]_vars
    /\ [][RegistrationTurn /\ poller'.reg.updated =>
            InMainLoop' /\ poller'.backoff = SleepReset]_vars
    /\ [](InMainLoop \/ poller.polls > 0 => poller.reg.updated)
    /\ (poller.pc = "register" ~> InMainLoop)

\* The agent is polling after two refused registrations and an accepted one.
C34_Witness ==
    /\ poller.pc = "polling" /\ poller.reg.updated
    /\ poller.regs = 2 /\ Len(poller.bslept) = 2

\* The state-changing backend calls of an executor for its job after the
\* acquire: the upload of the log and the finish call.
StateChangingCalls(e) ==
    {k \in 1..Len(e.calls) : e.calls[k] \in {"upload", "finish"}}

(* C35: an executor issues no state-changing backend call - no upload of   *)
(* outputs or of the log, no finish - for a job that its acquire call did  *)
(* not obtain (the backend refused it or the call failed).                 *)
C35_NoCallsWithoutOwnership ==
    \A n \in Nodes : AcquireFailed(ex[n]) => StateChangingCalls(ex[n]) = {}

(* C36: whenever _execute has returned, the subprocess it started has      *)
(* exited and been waited for, or has been sent terminate: no return of    *)
(* _execute, an exception while the output is drained included, leaves the *)
(* subprocess running.                                                     *)
C36_ReturnLeavesNoSubprocessRunning ==
    proc.pc = "idle" => proc.process \in {"none", "exited", "terminated"}

(* C37: the executor's cancellation flag is monotonic: a query that        *)
(* returned cancelled has set it, once set it is never false again -       *)
(* whatever the backend reports later - and every later check returns true *)
(* without querying the backend.                                           *)
C37_CancelledFlagIsMonotonic ==
    /\ [](cancel.cur.completed /\ cancel.cur.result = "true" => cancel.flag)
    /\ [][cancel.flag =>
            /\ cancel'.flag
            /\ cancel'.ncalls > 0 /\ cancel'.cur.flagBefore =>
                  ~cancel'.cur.queried /\ cancel'.cur.result = "true"]_vars

\* The flag is set, the backend has since cleared the mark, and an immediate
\* check made after the wait was answered true.
C37_Witness ==
    /\ cancel.flag /\ ~cancel.backend
    /\ cancel.cur.flagBefore /\ cancel.cur.immediate
    /\ cancel.cur.t - cancel.last >= CancelCheckWait
    /\ cancel.cur.result = "true"

(* C38: a result of _execute carries the cancelled marker - the code 255   *)
(* with 'Job was cancelled' as the last line of its output - only if the   *)
(* agent terminated the subprocess; a subprocess whose output ended by     *)
(* itself is reported with its own exit code.                              *)
C38_CancelledMarkerOnlyAfterTerminate ==
    proc.pc = "idle" /\ proc.result.origin = "cancelled" =>
        proc.process = "terminated"

(* C39: constructing a SleepSchedule from an empty schedule raises, and    *)
(* after any sequence of sleep, next and reset calls on a schedule of      *)
(* n >= 1 entries the index is within 0..n-1 (so that sleep reads an entry *)
(* of the schedule), in core/_sleep.py and in the legacy _sleep.py alike.  *)
C39_IndexStaysWithinSchedule ==
    /\ sched.raised <=> Len(sched.schedule) = 0
    /\ ~sched.raised =>
          /\ sched.current \in 0..(Len(sched.schedule) - 1)
          /\ sched.slept \in {0} \cup Range(sched.schedule)

\* A schedule of three entries after three next() calls: the core class is
\* at its last entry and has slept it.
C39_Witness ==
    /\ sched.variant = "core" /\ Len(sched.schedule) = 3
    /\ sched.advances = 3 /\ sched.current = 2
    /\ sched.slept = sched.schedule[3]

\* The same of the legacy class, which is back at its first entry.
C39_WitnessLegacy ==
    /\ sched.variant = "legacy" /\ Len(sched.schedule) = 3
    /\ sched.advances = 3 /\ sched.current = 0

\* poll() has ended without an executor although its last listing was
\* obtained: a candidate of a listing without acceptable candidate made
\* prepare_job raise.
EndedWithoutAcceptance ==
    /\ poller.pc = "raised" /\ poller.listed
    /\ \A i \in 1..Len(poller.listing) : poller.listing[i] # "accept"

(* C40: a poll that finds no acceptable candidate advances only the        *)
(* poller's own interval schedule, which every poll() call starts at index *)
(* 0; neither the pass over the listing nor what the launcher does once    *)
(* that poll is over changes the launcher's backend-error backoff index.   *)
C40_NoAcceptanceLeavesBackoff ==
    /\ [](poller.pc = "polling" /\ poller.lists = 0 => poller.current = 0)
    /\ [][PassWithoutAcceptance =>
            /\ poller'.backoff = poller.backoff
            /\ poller'.bslept = poller.bslept]_vars
    /\ [][EndedWithoutAcceptance =>
            /\ poller'.backoff = poller.backoff
            /\ poller'.bslept = poller.bslept]_vars

====
